---- MODULE Spec2Model ----
(***************************************************************************)
(* State-machine model of sensor_integration.c (head_impact_IMU): the      *)
(* start-up tests, arming, the capture loop, the flash store / retrieve    *)
(* protocol of the MT25QL256ABA and the read-back comparison that prints   *)
(* the impact data.                                                        *)
(***************************************************************************)
EXTENDS Integers, Sequences, FiniteSets, TLC

(***************************************************************************)
(* Bounds of the model.                                                    *)
(***************************************************************************)
\* capacity of g_sample_set_buf / g_flash_output_buf (sensors_integration.h)
MAX_SAMPLE_BUF_LENGTH == 3
\* bytes erased by one ERASE_4KB_SUBSECTOR command; 4096 on the device, scaled
\* so that a buffer of a few 32-byte records spans more than one subsector
SubsectorBytes == 64
\* IMPACT_DURATION (sensors_integration.h) ranges over 1..MaxDuration time units
MaxDuration == 3
\* the time one sample_impact_data call takes ranges over 1..MaxAcqTime
MaxAcqTime == 2
\* bus transactions that may fail in one run of SpecFault
MaxFaults == 1
\* base addresses a caller may hand to the store step in SpecBase: 0..MaxBaseSlots records
MaxBaseSlots == 2

(***************************************************************************)
(* Program constants.                                                      *)
(***************************************************************************)
\* sizeof(buf) in mt25ql256aba_store_samples / mt25ql256aba_retrieve_samples
BUF_SIZE == 32
\* MT25QL256ABA_LOW_128MBIT_SEGMENT_ADDRESS_START
LOW_SEGMENT_ADDRESS_START == 0
\* MT25QL256ABA_LOW_128MBIT_SEGMENT_ADDRESS_END and _HIGH_128MBIT_SEGMENT_ADDRESS_START
LOW_SEGMENT_ADDRESS_END == 16777215
HIGH_SEGMENT_ADDRESS_START == 16777216
\* 0x20, 0xBA, 0x19: the flash identity bytes of mt25ql256aba_startup_test
FLASH_DEVICE_ID == 32
FLASH_MEMORY_TYPE == 186
FLASH_MEMORY_CAPACITY == 25
\* 0xE1: the ICM20649 who-am-i value; 0x1: the value written and read back
ICM_WHO_AM_I == 225
ICM_WRITE_READ == 1
\* 0xAD, 0x1D, 0xFA: the three ADXL372 device IDs
ADI_ADXL372_ADI_DEVID_VAL == 173
ADI_ADXL372_MST_DEVID_VAL == 29
ADI_ADXL372_DEVID_VAL == 250
\* HOUR_MODE_12, HOUR_MODE_24, PM of ds1388.h
HOUR_MODE_12 == 64
HOUR_MODE_24 == 0
PM == 32
\* a page of the flash: a page program wraps inside it
PAGE_SIZE == 256
\* the erased value of a flash byte (0xFF)
ERASED == 255

(***************************************************************************)
(* Constants of sensors_integration.h, which is not among the sources:    *)
(* the values are those of the specification's scenarios.                  *)
(***************************************************************************)
PROX_THRESHOLD == 10
IMPACT_G_THRESHOLD == 30

(***************************************************************************)
(* Arithmetic helpers.                                                     *)
(***************************************************************************)
Min(a, b) == IF a <= b THEN a ELSE b

Abs(x) == IF x < 0 THEN -x ELSE x

\* C integer division truncates towards zero
Quot(a, b) == IF a >= 0 THEN a \div b ELSE -((-a) \div b)

CeilDiv(a, b) == (a + b - 1) \div b

RECURSIVE BitAnd(_, _, _)
BitAnd(a, b, n) ==
    IF n = 0 THEN 0
    ELSE (a % 2) * (b % 2) + 2 * BitAnd(a \div 2, b \div 2, n - 1)

\* bitwise AND of two bytes: what programming does to a flash cell
And8(a, b) == BitAnd(a, b, 8)

\* the 16-bit pattern of an int16_t and back
U16(v) == (v + 65536) % 65536
S16(u) == IF u >= 32768 THEN u - 65536 ELSE u

Range(s) == {s[k] : k \in 1..Len(s)}

(***************************************************************************)
(* Records.  impact_sample_t holds the three sensor structs; ds1388_data_t *)
(* is year, month, date, day, hour, minute, second, hundreth.              *)
(***************************************************************************)
ZeroSample ==
    [adxl_data |-> <<0, 0, 0>>,
     icm_data  |-> <<0, 0, 0, 0, 0, 0>>,
     ds_data   |-> <<0, 0, 0, 0, 0, 0, 0, 0>>]

\* sizeof(impact_sample_t): nine int16_t and eight uint8_t
SampleSize == 2 * 3 + 2 * 6 + 8

\* the little-endian bytes of a sequence of int16_t
RECURSIVE Int16Bytes(_)
Int16Bytes(s) ==
    IF s = <<>> THEN <<>>
    ELSE <<U16(Head(s)) % 256, U16(Head(s)) \div 256>> \o Int16Bytes(Tail(s))

\* memcpy(buf, &g_sample_set_buf[i], sample_buf_size): the byte image of a record
SampleBytes(s) == Int16Bytes(s.adxl_data) \o Int16Bytes(s.icm_data) \o s.ds_data

\* the int16_t stored at byte offset off (0-based) of a byte sequence
Int16At(b, off) == S16(b[off + 1] + 256 * b[off + 2])

\* memcpy(&g_flash_output_buf[i], out_buf, sample_buf_size): a record from its bytes
BytesSample(b) ==
    [adxl_data |-> <<Int16At(b, 0), Int16At(b, 2), Int16At(b, 4)>>,
     icm_data  |-> <<Int16At(b, 6), Int16At(b, 8), Int16At(b, 10),
                     Int16At(b, 12), Int16At(b, 14), Int16At(b, 16)>>,
     ds_data   |-> <<b[19], b[20], b[21], b[22], b[23], b[24], b[25], b[26]>>]

\* uint8_t buf[32] = {0} after the memcpy of a record: the bytes past the record stay 0
PadBuf(b) == b \o [k \in 1..(BUF_SIZE - Len(b)) |-> 0]

(***************************************************************************)
(* convert_4byte_address_to_3byte_address and the device's decoding.       *)
(***************************************************************************)
\* the three bytes in the order they lie in memory: low address byte first
convert_address_low_byte_first(addr) ==
    <<addr % 256, (addr \div 256) % 256, (addr \div 65536) % 256>>

convert_4byte_address_to_3byte_address(addr) ==
    <<(addr \div 65536) % 256, (addr \div 256) % 256, addr % 256>>

\* the byte address the device decodes from the three address bytes
DeviceAddress(addr_buf) == addr_buf[1] * 65536 + addr_buf[2] * 256 + addr_buf[3]

(***************************************************************************)
(* The flash array: FlashBytes cells of the low segment.                   *)
(***************************************************************************)
FlashBytes == BUF_SIZE * (MAX_SAMPLE_BUF_LENGTH + MaxBaseSlots)

FlashCells == 0..(FlashBytes - 1)

\* the cell the k-th data byte (0-based) of a page program at addr lands in
PageAddr(addr, k) == (addr \div PAGE_SIZE) * PAGE_SIZE + ((addr + k) % PAGE_SIZE)

\* PAGE PROGRAM: a cell can only lose bits
DevProgram(mem, addr, data) ==
    [a \in DOMAIN mem |->
        IF \E k \in 1..Len(data) : PageAddr(addr, k - 1) = a
        THEN LET k == CHOOSE j \in 1..Len(data) : PageAddr(addr, j - 1) = a
             IN  And8(mem[a], data[k])
        ELSE mem[a]]

\* 4KB SUBSECTOR ERASE: every cell of the subsector holding addr reads 0xFF again
DevErase(mem, addr) ==
    [a \in DOMAIN mem |->
        IF a \div SubsectorBytes = addr \div SubsectorBytes THEN ERASED ELSE mem[a]]

\* READ: n bytes from addr on
DevRead(mem, addr, n) == [k \in 1..n |-> mem[addr + k - 1]]

\* flash contents left by earlier use: every cell erased, or one byte of every
\* 32-byte slot programmed to 0
CleanFlash == [a \in FlashCells |-> ERASED]

DirtyFlash(off) == [a \in FlashCells |-> IF a % BUF_SIZE = off THEN 0 ELSE ERASED]

FlashInits == {CleanFlash} \cup {DirtyFlash(off) : off \in 0..(SampleSize - 1)}

(***************************************************************************)
(* Sensors.  The drivers return one of a few readings per read.            *)
(***************************************************************************)
\* adxl372_get_accel_data: x, y, z of the high-g accelerometer
AdxlReadings == {<<1, -2, 3>>, <<1, -35, 30>>}

\* the readings of the impact poll: those, and one with an axis at the threshold
PollReadings == AdxlReadings \cup {<<0, -IMPACT_G_THRESHOLD, 5>>}

\* the raw accel x, y, z and gyro x, y, z registers of the ICM20649
IcmReadings == {<<1024, -512, 2048, 100, -200, 300>>}

\* the proximity value the VCNL4040 returns
ProxReadings == {PROX_THRESHOLD, PROX_THRESHOLD + 2}

\* the bytes a start-up test may read where `expected' is the identity constant
IdReadings(expected) == {expected, 0}

\* raw / 32767 * 2000 * (3.1415 / 180) * 1000 truncated towards zero: the factor is
\* 314150 / 294903, taken as 1 + 19247 / 294903 to stay within 32-bit products
GyroMilliRad(raw) == raw + Quot(raw * 19247, 294903)

\* icm20649_convert_data: raw / 1024 * 1000 and raw / 32767 * 2000 * (3.1415 / 180)
\* * 1000, truncated towards zero as the assignment to the int16_t field does
icm20649_convert_data(data) ==
    <<Quot(data[1] * 1000, 1024), Quot(data[2] * 1000, 1024), Quot(data[3] * 1000, 1024),
      GyroMilliRad(data[4]), GyroMilliRad(data[5]), GyroMilliRad(data[6])>>

\* the values of an int16_t
Int16Range == -32768..32767

\* what an int16_t field holds once the value v of a floating-point expression was
\* assigned to it: v when it is in range; out of range the conversion is undefined,
\* and a build either keeps the low 16 bits of the integer or saturates
Int16Stores(v) ==
    IF v \in Int16Range THEN {v}
    ELSE {S16(v % 65536), IF v > 0 THEN 32767 ELSE -32768}

\* the struct icm20649_convert_data leaves: each value assigned back to its field
icm20649_convert_stores(data) ==
    LET v == icm20649_convert_data(data)
    IN  {<<ax, ay, az, gx, gy, gz>> :
            ax \in Int16Stores(v[1]), ay \in Int16Stores(v[2]), az \in Int16Stores(v[3]),
            gx \in Int16Stores(v[4]), gy \in Int16Stores(v[5]), gz \in Int16Stores(v[6])}

\* a get_time that stores a register as it was read
hex2dec_AsRead(val) == val

\* dec2hex and hex2dec on a uint8_t
dec2hex(val) == (val + 6 * (val \div 10)) % 256

hex2dec(val) == (val - 6 * (val \div 16)) % 256

\* init_time[] and time_format, which ds_config writes to the DS1388:
\* year, month, date, day, hour, minute, second, hundredth
InitTime == <<20, 11, 5, 4, 9, 34, 56, 0>>

TimeFormat == HOUR_MODE_12 + PM

\* the DS1388 registers (packed BCD) `elapsed' hundredths after the timer was armed
RtcRegs(elapsed) ==
    [year    |-> dec2hex(InitTime[1]),
     month   |-> dec2hex(InitTime[2]),
     date    |-> dec2hex(InitTime[3]),
     day     |-> dec2hex(InitTime[4]),
     hour    |-> dec2hex(InitTime[5]) + TimeFormat,
     minute  |-> dec2hex(InitTime[6]),
     second  |-> dec2hex(InitTime[7]),
     hundred |-> dec2hex((InitTime[8] + elapsed) % 100)]

\* an hour conversion that forgets the mask of the 12-hour mode
GetTimeHour_NoMask(reg) == hex2dec(reg)

\* the hour get_time stores: 24-hour mode keeps the register, 12-hour mode masks 0x1F
GetTimeHour(reg) ==
    IF (reg \div 64) % 2 = HOUR_MODE_24 THEN hex2dec(reg) ELSE hex2dec(reg % 32)

\* get_time's return value: 2 in 24-hour mode, else bit 0x20 of the hour register
get_time_return(reg) ==
    IF (reg \div 64) % 2 = HOUR_MODE_24 THEN 2 ELSE (reg \div PM) % 2

\* get_time: the eight registers read and converted to decimal (day is stored as read)
get_time(regs) ==
    <<hex2dec(regs.year), hex2dec(regs.month), hex2dec(regs.date), regs.day,
      GetTimeHour(regs.hour), hex2dec(regs.minute), hex2dec(regs.second),
      hex2dec(regs.hundred)>>

(***************************************************************************)
(* State.                                                                  *)
(***************************************************************************)
VARIABLES
    pc,                  \* where main is
    test_val,            \* the bytes the current start-up test has read (kept in a halt)
    m_xfer_done,         \* set by twi_handler on NRF_DRV_TWI_EVT_DONE
    prox_val,
    high_g_data,         \* main's locals
    low_g_gyro_data,
    rtc_data,
    get_time_ret,        \* what the last get_time call returned, -1 before the first
    g_measurement_done,  \* set by measurement_timer_handler
    timer,               \* m_measurement_timer_id: "idle", "armed", "fired", "stopped"
    now,                 \* time since app_timer_start, at the end of the current iteration
    duration,            \* IMPACT_DURATION
    acq_time,            \* the time one sample_impact_data call takes
    use_prox,            \* whether the build defines USE_PROX
    iterations,          \* sample_impact_data calls started in this episode
    g_buf_index,
    g_sample_set_buf,
    g_flash_output_buf,
    start_addr,          \* the value main gives flash_addr before the store step
    flash_addr,          \* main's write cursor
    i,                   \* the loop index of the store, retrieve or output step
    flash_addr_buf,      \* the three address bytes of the store step
    out_buf,             \* the read-back buffer of the store step
    addr32,              \* the read address of the retrieve step
    flash,               \* the cells of the flash array
    flash_busy,          \* status register bit 0: a program or erase is in progress
    wel,                 \* the write enable latch
    last_cmd,            \* the last command sent to the flash
    awaiting_ready,      \* a program or erase was sent and no poll has seen it ready
    prog_log,            \* the device addresses of the page programs sent, in order
    read_log,            \* the device addresses the retrieve step read, in order
    faults_left,         \* bus transactions that may still fail
    faulted,             \* indices whose store or retrieve had a failed transaction
    out_log              \* the lines serial_output_flash_data printed

vars ==
    <<pc, test_val, m_xfer_done, prox_val, high_g_data, low_g_gyro_data, rtc_data, get_time_ret,
      g_measurement_done, timer, now, duration, acq_time, use_prox, iterations, g_buf_index,
      g_sample_set_buf, g_flash_output_buf, start_addr, flash_addr, i, flash_addr_buf,
      out_buf, addr32, flash, flash_busy, wel, last_cmd, awaiting_ready, prog_log,
      read_log, faults_left, faulted, out_log>>

\* the variables of the flash device and of the host's view of it
flash_vars == <<flash, flash_busy, wel, last_cmd, awaiting_ready>>

\* the variables of the capture loop
capture_vars ==
    <<high_g_data, low_g_gyro_data, rtc_data, get_time_ret, g_measurement_done, timer, now,
      iterations, g_buf_index, g_sample_set_buf>>

\* the variables of the store, retrieve and output steps
store_locals ==
    <<g_flash_output_buf, flash_addr, i, flash_addr_buf, out_buf, addr32, prog_log,
      read_log, out_log>>

store_vars == <<store_locals, faulted>>

BufIndices == 0..(MAX_SAMPLE_BUF_LENGTH - 1)

\* the state after construction, for the given run parameters
InitWith(durations, acq_times, flashes, bases, faults) ==
    /\ pc = "flash_test"
    /\ test_val = <<>>
    /\ m_xfer_done = FALSE
    /\ prox_val = 0
    /\ high_g_data = <<0, 0, 0>>
    /\ low_g_gyro_data = <<0, 0, 0, 0, 0, 0>>
    /\ rtc_data = <<0, 0, 0, 0, 0, 0, 0, 0>>
    /\ get_time_ret = -1
    /\ g_measurement_done = FALSE
    /\ timer = "idle"
    /\ now = 0
    /\ duration \in durations
    /\ acq_time \in acq_times
    /\ iterations = 0
    /\ g_buf_index = 0
    /\ g_sample_set_buf = [k \in BufIndices |-> ZeroSample]
    /\ g_flash_output_buf = [k \in BufIndices |-> ZeroSample]
    /\ start_addr \in bases
    /\ flash_addr = 0
    /\ i = 0
    /\ flash_addr_buf = <<0, 0, 0>>
    /\ out_buf = [k \in 1..BUF_SIZE |-> 0]
    /\ addr32 = 0
    /\ flash \in flashes
    /\ flash_busy = FALSE
    /\ wel = FALSE
    /\ last_cmd = "NONE"
    /\ awaiting_ready = FALSE
    /\ prog_log = <<>>
    /\ read_log = <<>>
    /\ faults_left = faults
    /\ faulted = {}
    /\ out_log = <<>>

Init ==
    /\ InitWith(1..MaxDuration, 1..MaxAcqTime, FlashInits, {LOW_SEGMENT_ADDRESS_START}, 0)
    /\ use_prox = TRUE

(***************************************************************************)
(* The buses.  A transaction fails only while faults_left allows it.       *)
(***************************************************************************)
\* whether an SPI transaction succeeds (a negative return is a failure)
Outcomes == IF faults_left > 0 THEN {TRUE, FALSE} ELSE {TRUE}

Spend(ok) == faults_left' = IF ok THEN faults_left ELSE faults_left - 1

\* the event the TWI driver hands to twi_handler when a transfer ends
TwiEvents ==
    IF faults_left > 0 THEN {"DONE", "ADDRESS_NACK", "DATA_NACK"} ELSE {"DONE"}

\* twi_handler: only NRF_DRV_TWI_EVT_DONE sets m_xfer_done, a NACK is logged
twi_handler(evt, done) == IF evt = "DONE" THEN TRUE ELSE done

\* what the flash does with a command that reaches it; while a program or erase is
\* in progress it accepts nothing but status reads
FlashSend(cmd, addr, data, ok) ==
    /\ last_cmd' = cmd
    /\ awaiting_ready' =
          IF cmd \in {"PAGE_PROGRAM", "ERASE_4KB_SUBSECTOR"} THEN TRUE ELSE awaiting_ready
    /\ IF ~ok \/ flash_busy
       THEN UNCHANGED <<flash, flash_busy, wel>>
       ELSE CASE cmd = "WRITE_ENABLE" ->
                    /\ wel' = TRUE
                    /\ UNCHANGED <<flash, flash_busy>>
              [] cmd = "WRITE_DISABLE" ->
                    /\ wel' = FALSE
                    /\ UNCHANGED <<flash, flash_busy>>
              [] cmd = "PAGE_PROGRAM" /\ wel ->
                    /\ flash' = DevProgram(flash, addr, data)
                    /\ flash_busy' = TRUE
                    /\ wel' = wel
              [] cmd = "ERASE_4KB_SUBSECTOR" /\ wel ->
                    /\ flash' = DevErase(flash, addr)
                    /\ flash_busy' = TRUE
                    /\ wel' = wel
              [] OTHER -> UNCHANGED <<flash, flash_busy, wel>>

\* the bytes a READ of n bytes leaves in the destination that held `old': a failed
\* transaction leaves it as it was, a read during a program or erase returns no data
ReadResults(addr, n, old, ok) ==
    IF ~ok THEN {old}
    ELSE IF flash_busy THEN {[k \in 1..n |-> 0], [k \in 1..n |-> ERASED]}
    ELSE {DevRead(flash, addr, n)}

\* the device finishes the program or erase in progress and resets the latch
FlashComplete ==
    /\ flash_busy
    /\ flash_busy' = FALSE
    /\ wel' = FALSE
    /\ UNCHANGED <<pc, test_val, m_xfer_done, prox_val, capture_vars, duration, acq_time, use_prox,
                   start_addr, store_vars, flash, last_cmd, awaiting_ready, faults_left>>

\* mt25ql256aba_check_ready_flag at `here': read the status register until bit 0 is
\* clear, then go on to `next'.  A failed read leaves flash_ready as it was.  A
\* failure is noted for the record indices in `mark'.
CheckReadyAt(here, next, mark) ==
    /\ pc = here
    /\ \E ok \in Outcomes :
          /\ Spend(ok)
          /\ faulted' = IF ok THEN faulted ELSE faulted \cup mark
          /\ last_cmd' = "READ_STATUS_REGISTER"
          /\ IF ok
             THEN /\ pc' = IF flash_busy THEN here ELSE next
                  /\ awaiting_ready' = IF flash_busy THEN awaiting_ready ELSE FALSE
             ELSE /\ pc' \in {here, next}
                  /\ UNCHANGED awaiting_ready
    /\ UNCHANGED <<flash, flash_busy, wel>>

(***************************************************************************)
(* main: the peripheral start-up tests.                                    *)
(***************************************************************************)
\* a test that looks at the device id byte only
FlashIdOk_DeviceIdOnly(val) == val[1] = FLASH_DEVICE_ID

\* the three flash identity bytes all match
FlashIdOk(val) ==
    /\ val[1] = FLASH_DEVICE_ID
    /\ val[2] = FLASH_MEMORY_TYPE
    /\ val[3] = FLASH_MEMORY_CAPACITY

\* adxl372_startup_test halts: only the devid branch holds the while(1)
AdxlTestHalts(device_id, mst_devid, devid) == devid # ADI_ADXL372_DEVID_VAL

no_test_change ==
    UNCHANGED <<m_xfer_done, prox_val, capture_vars, duration, acq_time, use_prox, start_addr,
                store_vars, flash, flash_busy, wel, awaiting_ready, faults_left>>

\* mt25ql256aba_startup_test: READ ID, then the three comparisons
mt25ql256aba_startup_test ==
    /\ \/ /\ pc = "flash_test"
          /\ \E v0 \in IdReadings(FLASH_DEVICE_ID), v1 \in IdReadings(FLASH_MEMORY_TYPE),
                v2 \in IdReadings(FLASH_MEMORY_CAPACITY) : test_val' = <<v0, v1, v2>>
          /\ pc' = "flash_check"
          /\ last_cmd' = "READ_ID"
       \/ /\ pc = "flash_check"
          /\ pc' = IF FlashIdOk(test_val) THEN "icm_read_test" ELSE "halt"
          /\ test_val' = IF pc' = "halt" THEN test_val ELSE <<>>
          /\ UNCHANGED last_cmd
    /\ no_test_change

\* icm20649_read_test: who_am_i must be 0xE1
icm20649_read_test ==
    /\ \/ /\ pc = "icm_read_test"
          /\ \E v \in IdReadings(ICM_WHO_AM_I) : test_val' = <<v>>
          /\ pc' = "icm_read_check"
       \/ /\ pc = "icm_read_check"
          /\ pc' = IF test_val[1] = ICM_WHO_AM_I THEN "icm_write_test" ELSE "halt"
          /\ test_val' = IF pc' = "halt" THEN test_val ELSE <<>>
    /\ UNCHANGED last_cmd
    /\ no_test_change

\* a main that erases the flash once the ICM write test has returned, before the
\* ADXL372 test
icm20649_write_test_ThenErase ==
    /\ \/ /\ pc = "icm_write_test"
          /\ \E v \in IdReadings(ICM_WRITE_READ) : test_val' = <<v>>
          /\ pc' = "icm_write_check"
       \/ /\ pc = "icm_write_check"
          /\ pc' = IF test_val[1] = ICM_WRITE_READ THEN "erase" ELSE "halt"
          /\ test_val' = IF pc' = "halt" THEN test_val ELSE <<>>
    /\ UNCHANGED last_cmd
    /\ no_test_change

\* icm20649_write_test: 0x1 written to register 0x06 must read back
icm20649_write_test ==
    /\ \/ /\ pc = "icm_write_test"
          /\ \E v \in IdReadings(ICM_WRITE_READ) : test_val' = <<v>>
          /\ pc' = "icm_write_check"
       \/ /\ pc = "icm_write_check"
          /\ pc' = IF test_val[1] = ICM_WRITE_READ THEN "adxl_test" ELSE "halt"
          /\ test_val' = IF pc' = "halt" THEN test_val ELSE <<>>
    /\ UNCHANGED last_cmd
    /\ no_test_change

\* adxl372_startup_test: device_id, mst_devid and devid are read, then compared
adxl372_startup_test ==
    /\ \/ /\ pc = "adxl_test"
          /\ \E v0 \in IdReadings(ADI_ADXL372_ADI_DEVID_VAL),
                v1 \in IdReadings(ADI_ADXL372_MST_DEVID_VAL),
                v2 \in IdReadings(ADI_ADXL372_DEVID_VAL) : test_val' = <<v0, v1, v2>>
          /\ pc' = "adxl_check"
       \/ /\ pc = "adxl_check"
          /\ pc' = IF AdxlTestHalts(test_val[1], test_val[2], test_val[3])
                   THEN "halt" ELSE "sensor_init"
          /\ test_val' = IF pc' = "halt" THEN test_val ELSE <<>>
    /\ UNCHANGED last_cmd
    /\ no_test_change

(***************************************************************************)
(* main: initialisation and configuration.                                 *)
(***************************************************************************)
no_config_change ==
    UNCHANGED <<test_val, prox_val, capture_vars, duration, acq_time, use_prox, start_addr,
                store_vars>>

\* icm20649_init, adxl372_init and twi_init: register writes to the sensors
sensor_init ==
    /\ pc = "sensor_init"
    /\ pc' = "ds_config"
    /\ UNCHANGED <<m_xfer_done, flash_vars, faults_left>>
    /\ no_config_change

\* m_xfer_done = false; nrf_drv_twi_tx(...): the transfer ends with one event
TwiTx(here, next) ==
    /\ pc = here
    /\ \E evt \in TwiEvents :
          /\ m_xfer_done' = twi_handler(evt, FALSE)
          /\ Spend(evt = "DONE")
    /\ pc' = next

\* while (m_xfer_done == false);
TwiWait(here, next) ==
    /\ pc = here
    /\ m_xfer_done
    /\ pc' = next
    /\ UNCHANGED <<m_xfer_done, faults_left>>

\* ds_config: the control register, then the eight time registers
ds_config ==
    /\ \/ TwiTx("ds_config", "ds_config_wait")
       \/ TwiWait("ds_config_wait", "ds_config_time")
       \/ TwiTx("ds_config_time", "ds_config_time_wait")
       \/ TwiWait("ds_config_time_wait", "erase")
    /\ UNCHANGED flash_vars
    /\ no_config_change

\* a command of mt25ql256aba_erase, mt25ql256aba_write_enable or _disable at `here'
FlashCmdAt(here, next, cmd, addr, data, mark) ==
    /\ pc = here
    /\ \E ok \in Outcomes :
          /\ Spend(ok)
          /\ faulted' = IF ok THEN faulted ELSE faulted \cup mark
          /\ FlashSend(cmd, addr, data, ok)
    /\ pc' = next

\* mt25ql256aba_erase: one subsector at address 0x000000, with no poll after it
mt25ql256aba_erase ==
    /\ \/ CheckReadyAt("erase", "erase_wren", {})
       \/ FlashCmdAt("erase_wren", "erase_cmd", "WRITE_ENABLE", 0, <<>>, {})
       \/ FlashCmdAt("erase_cmd", "erase_wrdi", "ERASE_4KB_SUBSECTOR",
                     DeviceAddress(<<0, 0, 0>>), <<>>, {})
       \/ FlashCmdAt("erase_wrdi", IF use_prox THEN "vcnl_config" ELSE "create_timers",
                     "WRITE_DISABLE", 0, <<>>, {})
    /\ UNCHANGED <<test_val, m_xfer_done, prox_val, capture_vars, duration, acq_time, use_prox,
                   start_addr, store_locals>>

\* vcnl_config: PS_CONF3 and PS_CONF1
vcnl_config ==
    /\ \/ TwiTx("vcnl_config", "vcnl_config_wait")
       \/ TwiWait("vcnl_config_wait", "vcnl_config_conf1")
       \/ TwiTx("vcnl_config_conf1", "vcnl_config_conf1_wait")
       \/ TwiWait("vcnl_config_conf1_wait", "create_timers")
    /\ UNCHANGED flash_vars
    /\ no_config_change

\* a main that starts the cursor at the high segment
create_timers_HighSegment ==
    /\ pc = "create_timers"
    /\ flash_addr' = HIGH_SEGMENT_ADDRESS_START
    /\ pc' = IF use_prox THEN "read_sensor_data" ELSE "impact_poll"
    /\ UNCHANGED <<test_val, m_xfer_done, prox_val, capture_vars, duration, acq_time, use_prox,
                   start_addr, g_flash_output_buf, i, flash_addr_buf, out_buf, addr32,
                   prog_log, read_log, faulted, out_log, flash_vars, faults_left>>

\* app_timer_init, create_timers and main's locals: flash_addr gets the segment start
create_timers ==
    /\ pc = "create_timers"
    /\ flash_addr' = start_addr
    /\ pc' = IF use_prox THEN "read_sensor_data" ELSE "impact_poll"
    /\ UNCHANGED <<test_val, m_xfer_done, prox_val, capture_vars, duration, acq_time, use_prox,
                   start_addr, g_flash_output_buf, i, flash_addr_buf, out_buf, addr32,
                   prog_log, read_log, faulted, out_log, flash_vars, faults_left>>

(***************************************************************************)
(* main: arming.                                                           *)
(***************************************************************************)
\* a proximity loop that is also left on a reading equal to the threshold
read_sensor_data_UntilAtThreshold ==
    /\ \/ /\ pc = "read_sensor_data"
          /\ m_xfer_done' = FALSE
          /\ pc' = "prox_loop"
          /\ UNCHANGED <<prox_val, faults_left>>
       \/ /\ pc = "prox_loop"
          /\ IF prox_val < PROX_THRESHOLD
             THEN /\ \E evt \in TwiEvents, m_sample \in ProxReadings :
                        /\ m_xfer_done' = twi_handler(evt, m_xfer_done)
                        /\ prox_val' = IF evt = "DONE" THEN m_sample ELSE prox_val
                        /\ Spend(evt = "DONE")
                  /\ pc' = "prox_loop"
             ELSE /\ pc' = "impact_poll"
                  /\ UNCHANGED <<m_xfer_done, prox_val, faults_left>>
    /\ UNCHANGED <<test_val, capture_vars, duration, acq_time, use_prox, start_addr, store_vars,
                   flash_vars>>

\* a proximity read whose completion does not reach twi_handler
read_sensor_data_NoHandler ==
    /\ \/ /\ pc = "read_sensor_data"
          /\ m_xfer_done' = FALSE
          /\ pc' = "prox_loop"
          /\ UNCHANGED <<prox_val, faults_left>>
       \/ /\ pc = "prox_loop"
          /\ IF prox_val <= PROX_THRESHOLD
             THEN /\ \E evt \in TwiEvents, m_sample \in ProxReadings :
                        /\ prox_val' = IF evt = "DONE" THEN m_sample ELSE prox_val
                        /\ Spend(evt = "DONE")
                  /\ pc' = "prox_loop"
                  /\ UNCHANGED m_xfer_done
             ELSE /\ pc' = "impact_poll"
                  /\ UNCHANGED <<m_xfer_done, prox_val, faults_left>>
    /\ UNCHANGED <<test_val, capture_vars, duration, acq_time, use_prox, start_addr,
                   store_vars, flash_vars>>

\* read_sensor_data: poll the proximity value until it is above PROX_THRESHOLD
read_sensor_data ==
    /\ \/ /\ pc = "read_sensor_data"
          /\ m_xfer_done' = FALSE
          /\ pc' = "prox_loop"
          /\ UNCHANGED <<prox_val, faults_left>>
       \/ /\ pc = "prox_loop"
          /\ IF prox_val <= PROX_THRESHOLD
             THEN /\ \E evt \in TwiEvents, m_sample \in ProxReadings :
                        /\ m_xfer_done' = twi_handler(evt, m_xfer_done)
                        /\ prox_val' = IF evt = "DONE" THEN m_sample ELSE prox_val
                        /\ Spend(evt = "DONE")
                  /\ pc' = "prox_loop"
             ELSE /\ pc' = "impact_poll"
                  /\ UNCHANGED <<m_xfer_done, prox_val, faults_left>>
    /\ UNCHANGED <<test_val, capture_vars, duration, acq_time, use_prox, start_addr, store_vars,
                   flash_vars>>

\* a threshold test that asks for more than the threshold
ImpactDetected_Strict(data) ==
    \/ Abs(data[1]) > IMPACT_G_THRESHOLD
    \/ Abs(data[2]) > IMPACT_G_THRESHOLD
    \/ Abs(data[3]) > IMPACT_G_THRESHOLD

\* the threshold test of main on a high-g reading
ImpactDetected(data) ==
    \/ Abs(data[1]) >= IMPACT_G_THRESHOLD
    \/ Abs(data[2]) >= IMPACT_G_THRESHOLD
    \/ Abs(data[3]) >= IMPACT_G_THRESHOLD

\* the while(1) of main: poll the high-g accelerometer, start the timer on an impact
impact_poll ==
    /\ pc = "impact_poll"
    /\ \E data \in PollReadings :
          /\ high_g_data' = data
          /\ IF ImpactDetected(data)
             THEN /\ timer' = "armed"
                  /\ now' = 0
                  /\ pc' = "capture_loop"
             ELSE /\ pc' = "impact_poll"
                  /\ UNCHANGED <<timer, now>>
    /\ UNCHANGED <<test_val, m_xfer_done, prox_val, low_g_gyro_data, rtc_data, get_time_ret,
                   g_measurement_done, iterations, g_buf_index, g_sample_set_buf,
                   duration, acq_time, use_prox, start_addr, store_vars, flash_vars, faults_left>>

(***************************************************************************)
(* main: the capture loop.  now is the time since app_timer_start at which *)
(* the iteration in progress ends; the timer expires at time duration.     *)
(***************************************************************************)
no_capture_change ==
    UNCHANGED <<test_val, prox_val, duration, acq_time, use_prox, start_addr, store_vars,
                flash_vars>>

\* a timer that may expire as soon as it is armed, whatever the time
measurement_timer_handler_AtOnce ==
    /\ timer = "armed"
    /\ g_measurement_done' = TRUE
    /\ timer' = "fired"
    /\ UNCHANGED <<pc, m_xfer_done, high_g_data, low_g_gyro_data, rtc_data, get_time_ret, now,
                   iterations, g_buf_index, g_sample_set_buf, faults_left>>
    /\ no_capture_change

\* measurement_timer_handler: the single-shot timer expires during, or at the end
\* of, the iteration now in progress
measurement_timer_handler ==
    /\ timer = "armed"
    /\ now >= duration
    /\ g_measurement_done' = TRUE
    /\ timer' = "fired"
    /\ UNCHANGED <<pc, m_xfer_done, high_g_data, low_g_gyro_data, rtc_data, get_time_ret, now,
                   iterations, g_buf_index, g_sample_set_buf, faults_left>>
    /\ no_capture_change

\* a capture loop that also goes on while the buffer has room
capture_loop_UntilFull ==
    /\ pc = "capture_loop"
    /\ ~(timer = "armed" /\ now > duration)
    /\ IF g_measurement_done = FALSE \/ g_buf_index < MAX_SAMPLE_BUF_LENGTH
       THEN /\ pc' = "sample_adxl"
            /\ now' = now + acq_time
            /\ iterations' = iterations + 1
       ELSE /\ pc' = "timer_stop"
            /\ UNCHANGED <<now, iterations>>
    /\ UNCHANGED <<m_xfer_done, high_g_data, low_g_gyro_data, rtc_data, get_time_ret,
                   g_measurement_done, timer, g_buf_index, g_sample_set_buf, faults_left>>
    /\ no_capture_change

\* while(g_measurement_done == false): an expiry that lies in the past has been
\* handled before the flag is read; one at this very instant may come either side
capture_loop ==
    /\ pc = "capture_loop"
    /\ ~(timer = "armed" /\ now > duration)
    /\ IF g_measurement_done = FALSE
       THEN /\ pc' = "sample_adxl"
            /\ now' = now + acq_time
            /\ iterations' = iterations + 1
       ELSE /\ pc' = "timer_stop"
            /\ UNCHANGED <<now, iterations>>
    /\ UNCHANGED <<m_xfer_done, high_g_data, low_g_gyro_data, rtc_data, get_time_ret,
                   g_measurement_done, timer, g_buf_index, g_sample_set_buf, faults_left>>
    /\ no_capture_change

\* an append that converts the low-g and gyro values again
MakeSample_Reconvert(high_g, low_g_gyro, rtc) ==
    [adxl_data |-> high_g, icm_data |-> icm20649_convert_data(low_g_gyro), ds_data |-> rtc]

\* the record sample_impact_data stores from main's three structs
MakeSample(high_g, low_g_gyro, rtc) ==
    [adxl_data |-> high_g, icm_data |-> low_g_gyro, ds_data |-> rtc]

\* a buffer that overwrites its last slot once it is full
AppendSample_Overwrite(buf, index, sample) ==
    IF index < MAX_SAMPLE_BUF_LENGTH
    THEN [buf EXCEPT ![index] = sample]
    ELSE [buf EXCEPT ![MAX_SAMPLE_BUF_LENGTH - 1] = sample]

\* an append that puts the newest record first and moves the others up
AppendSample_NewestFirst(buf, index, sample) ==
    IF index < MAX_SAMPLE_BUF_LENGTH
    THEN [k \in BufIndices |->
             IF k = 0 THEN sample ELSE IF k <= index THEN buf[k - 1] ELSE buf[k]]
    ELSE buf

\* the buffer after the guarded append of sample_impact_data
AppendSample(buf, index, sample) ==
    IF index < MAX_SAMPLE_BUF_LENGTH THEN [buf EXCEPT ![index] = sample] ELSE buf

\* an append guard that is off by one: the last slot is never filled
AppendIndex_OffByOne(index) ==
    IF index + 1 < MAX_SAMPLE_BUF_LENGTH THEN index + 1 ELSE index

\* g_buf_index after the guarded append of sample_impact_data
AppendIndex(index) == IF index < MAX_SAMPLE_BUF_LENGTH THEN index + 1 ELSE index

\* how get_time's eight readRegister calls end: 0 when every transfer is
\* acknowledged, k when the k-th one is not; the call after it then waits in
\* readRegister for an m_xfer_done that nothing sets
NackPoints == IF faults_left > 0 THEN 0..8 ELSE {0}

\* sample_impact_data, one call per step
sample_impact_data ==
    /\ \/ /\ pc = "sample_adxl"
          /\ \E data \in AdxlReadings : high_g_data' = data
          /\ pc' = "sample_icm"
          /\ UNCHANGED <<m_xfer_done, low_g_gyro_data, rtc_data, get_time_ret, g_buf_index,
                         g_sample_set_buf, faults_left>>
       \/ /\ pc = "sample_icm"
          /\ \E data \in IcmReadings : low_g_gyro_data' = data
          /\ pc' = "sample_convert"
          /\ UNCHANGED <<m_xfer_done, high_g_data, rtc_data, get_time_ret, g_buf_index,
                         g_sample_set_buf, faults_left>>
       \/ /\ pc = "sample_convert"
          /\ low_g_gyro_data' \in icm20649_convert_stores(low_g_gyro_data)
          /\ pc' = "sample_rtc"
          /\ UNCHANGED <<m_xfer_done, high_g_data, rtc_data, get_time_ret, g_buf_index,
                         g_sample_set_buf, faults_left>>
       \/ /\ pc = "sample_rtc"
          /\ m_xfer_done
          /\ \E nack \in NackPoints :
                /\ Spend(nack = 0)
                /\ m_xfer_done' = (nack = 0)
                /\ IF nack \in 1..7
                   THEN /\ pc' = "read_register"
                        /\ UNCHANGED <<rtc_data, get_time_ret>>
                   ELSE /\ pc' = "sample_append"
                        /\ rtc_data' = get_time(RtcRegs(now))
                        /\ get_time_ret' = get_time_return(RtcRegs(now).hour)
          /\ UNCHANGED <<high_g_data, low_g_gyro_data, g_buf_index, g_sample_set_buf>>
       \/ /\ pc = "sample_append"
          /\ g_sample_set_buf' =
                AppendSample(g_sample_set_buf, g_buf_index,
                             MakeSample(high_g_data, low_g_gyro_data, rtc_data))
          /\ g_buf_index' = AppendIndex(g_buf_index)
          /\ pc' = "capture_loop"
          /\ UNCHANGED <<m_xfer_done, high_g_data, low_g_gyro_data, rtc_data, get_time_ret,
                         faults_left>>
    /\ UNCHANGED <<g_measurement_done, timer, now, iterations>>
    /\ no_capture_change

\* a main that does not reset the flag after the capture loop
timer_stop_NoReset ==
    /\ \/ /\ pc = "timer_stop"
          /\ timer' = "stopped"
          /\ pc' = "flag_reset"
          /\ UNCHANGED <<g_measurement_done, i, flash_addr_buf, out_buf>>
       \/ /\ pc = "flag_reset"
          /\ pc' = "store_loop"
          /\ i' = 0
          /\ flash_addr_buf' = <<0, 0, 0>>
          /\ out_buf' = [k \in 1..BUF_SIZE |-> 0]
          /\ UNCHANGED <<g_measurement_done, timer>>
    /\ UNCHANGED <<test_val, m_xfer_done, prox_val, high_g_data, low_g_gyro_data,
                   rtc_data, get_time_ret, now, iterations, g_buf_index, g_sample_set_buf,
                   duration, acq_time, use_prox, start_addr, g_flash_output_buf, flash_addr, addr32,
                   prog_log, read_log, faulted, out_log, flash_vars, faults_left>>

\* app_timer_stop, g_measurement_done = false, then the locals of the store step
timer_stop ==
    /\ \/ /\ pc = "timer_stop"
          /\ timer' = "stopped"
          /\ pc' = "flag_reset"
          /\ UNCHANGED <<g_measurement_done, i, flash_addr_buf, out_buf>>
       \/ /\ pc = "flag_reset"
          /\ g_measurement_done' = FALSE
          /\ pc' = "store_loop"
          /\ i' = 0
          /\ flash_addr_buf' = <<0, 0, 0>>
          /\ out_buf' = [k \in 1..BUF_SIZE |-> 0]
          /\ UNCHANGED timer
    /\ UNCHANGED <<test_val, m_xfer_done, prox_val, high_g_data, low_g_gyro_data,
                   rtc_data, get_time_ret, now, iterations, g_buf_index, g_sample_set_buf,
                   duration,
                   acq_time, use_prox, start_addr, g_flash_output_buf, flash_addr, addr32,
                   prog_log, read_log, faulted, out_log, flash_vars, faults_left>>

(***************************************************************************)
(* mt25ql256aba_store_samples.                                             *)
(***************************************************************************)
no_store_change ==
    UNCHANGED <<test_val, m_xfer_done, prox_val, capture_vars, duration, acq_time, use_prox,
                start_addr>>

\* a page program of sample_buf_size bytes: the record without the rest of buf
StoreBuf_SampleOnly(k) == SampleBytes(g_sample_set_buf[k])

\* uint8_t buf[32] of the store step once record k has been copied into it
StoreBuf(k) == PadBuf(SampleBytes(g_sample_set_buf[k]))

\* a cursor that advances by sizeof(impact_sample_t) instead of buf_size
AdvanceCursor_SampleSize(addr) == addr + SampleSize

\* *flash_addr = *flash_addr + buf_size (the cursor stays far below 2^32)
AdvanceCursor(addr) == addr + BUF_SIZE

\* a store loop that stops one record early
StoreLoop_SkipsLast ==
    /\ pc = "store_loop"
    /\ IF i + 1 < g_buf_index
       THEN /\ pc' = "store_ready"
            /\ UNCHANGED <<i, addr32>>
       ELSE /\ pc' = "retrieve_loop"
            /\ i' = 0
            /\ addr32' = 0
    /\ UNCHANGED <<g_flash_output_buf, flash_addr, flash_addr_buf, out_buf, prog_log,
                   read_log, out_log, faulted, flash_vars, faults_left>>

\* for (int i = 0; i < g_buf_index; ++i): the loop test, and the locals of
\* mt25ql256aba_retrieve_samples when the loop ends
StoreLoop ==
    /\ pc = "store_loop"
    /\ IF i < g_buf_index
       THEN /\ pc' = "store_ready"
            /\ UNCHANGED <<i, addr32>>
       ELSE /\ pc' = "retrieve_loop"
            /\ i' = 0
            /\ addr32' = 0
    /\ UNCHANGED <<g_flash_output_buf, flash_addr, flash_addr_buf, out_buf, prog_log,
                   read_log, out_log, faulted, flash_vars, faults_left>>

\* mt25ql256aba_check_ready_flag, memcpy and convert_4byte_address_to_3byte_address
StoreReady ==
    /\ CheckReadyAt("store_ready", "store_write_enable", {i})
    /\ flash_addr_buf' =
          IF pc' = "store_write_enable"
          THEN convert_4byte_address_to_3byte_address(flash_addr)
          ELSE flash_addr_buf
    /\ UNCHANGED <<g_flash_output_buf, flash_addr, i, out_buf, addr32, prog_log,
                   read_log, out_log>>

\* a store step that forgets the write enable
StoreWriteEnable_Skipped ==
    /\ pc = "store_write_enable"
    /\ pc' = "store_program"
    /\ UNCHANGED <<store_locals, faulted, flash_vars, faults_left>>

\* mt25ql256aba_write_enable
StoreWriteEnable ==
    /\ FlashCmdAt("store_write_enable", "store_program", "WRITE_ENABLE", 0, <<>>, {i})
    /\ UNCHANGED store_locals

\* a store step that sends the page program again when its transaction failed
StoreProgram_Retry ==
    /\ pc = "store_program"
    /\ \E ok \in Outcomes :
          /\ Spend(ok)
          /\ faulted' = IF ok THEN faulted ELSE faulted \cup {i}
          /\ FlashSend("PAGE_PROGRAM", DeviceAddress(flash_addr_buf), StoreBuf(i), ok)
          /\ pc' = IF ok THEN "store_write_disable" ELSE "store_program"
    /\ prog_log' = Append(prog_log, DeviceAddress(flash_addr_buf))
    /\ UNCHANGED <<g_flash_output_buf, flash_addr, i, flash_addr_buf, out_buf, addr32,
                   read_log, out_log>>

\* mt25ql256aba_write_op(MT25QL256ABA_PAGE_PROGRAM, flash_addr_buf, 3, buf, 32)
StoreProgram ==
    /\ FlashCmdAt("store_program", "store_write_disable", "PAGE_PROGRAM",
                  DeviceAddress(flash_addr_buf), StoreBuf(i), {i})
    /\ prog_log' = Append(prog_log, DeviceAddress(flash_addr_buf))
    /\ UNCHANGED <<g_flash_output_buf, flash_addr, i, flash_addr_buf, out_buf, addr32,
                   read_log, out_log>>

\* mt25ql256aba_write_disable
StoreWriteDisable ==
    /\ FlashCmdAt("store_write_disable", "store_poll", "WRITE_DISABLE", 0, <<>>, {i})
    /\ UNCHANGED store_locals

\* a store step that reads back without waiting for the program to finish
StorePoll_Skipped ==
    /\ pc = "store_poll"
    /\ pc' = "store_read"
    /\ UNCHANGED <<store_locals, faulted, flash_vars, faults_left>>

\* mt25ql256aba_check_ready_flag after the program
StorePoll ==
    /\ CheckReadyAt("store_poll", "store_read", {i})
    /\ UNCHANGED store_locals

\* the read-back into out_buf, the memcpy into g_flash_output_buf[i] and the
\* advance of the cursor
StoreReadBack ==
    /\ pc = "store_read"
    /\ \E ok \in Outcomes :
          /\ Spend(ok)
          /\ faulted' = IF ok THEN faulted ELSE faulted \cup {i}
          /\ FlashSend("READ", DeviceAddress(flash_addr_buf), <<>>, ok)
          /\ \E data \in ReadResults(DeviceAddress(flash_addr_buf), BUF_SIZE, out_buf, ok) :
                /\ out_buf' = data
                /\ g_flash_output_buf' =
                      [g_flash_output_buf EXCEPT ![i] = BytesSample(data)]
    /\ flash_addr' = AdvanceCursor(flash_addr)
    /\ i' = i + 1
    /\ pc' = "store_loop"
    /\ UNCHANGED <<flash_addr_buf, addr32, prog_log, read_log, out_log>>

mt25ql256aba_store_samples ==
    /\ \/ StoreLoop
       \/ StoreReady
       \/ StoreWriteEnable
       \/ StoreProgram
       \/ StoreWriteDisable
       \/ StorePoll
       \/ StoreReadBack
    /\ no_store_change

(***************************************************************************)
(* mt25ql256aba_retrieve_samples.                                          *)
(***************************************************************************)
\* addr32 = addr32 + buf_size
AdvanceRead(addr) == addr + BUF_SIZE

RetrieveLoop ==
    /\ pc = "retrieve_loop"
    /\ IF i < g_buf_index
       THEN /\ pc' = "retrieve_ready"
            /\ UNCHANGED i
       ELSE /\ pc' = "output_loop"
            /\ i' = 0
    /\ UNCHANGED <<g_flash_output_buf, flash_addr, flash_addr_buf, out_buf, addr32,
                   prog_log, read_log, out_log, faulted, flash_vars, faults_left>>

RetrieveReady ==
    /\ CheckReadyAt("retrieve_ready", "retrieve_read", {i})
    /\ UNCHANGED store_locals

\* the READ of sizeof(impact_sample_t) bytes at addr32 into g_flash_output_buf[i]
RetrieveRead ==
    /\ pc = "retrieve_read"
    /\ LET addr == DeviceAddress(convert_4byte_address_to_3byte_address(addr32))
       IN  /\ \E ok \in Outcomes :
                 /\ Spend(ok)
                 /\ faulted' = IF ok THEN faulted ELSE faulted \cup {i}
                 /\ FlashSend("READ", addr, <<>>, ok)
                 /\ \E data \in ReadResults(addr, SampleSize,
                                           SampleBytes(g_flash_output_buf[i]), ok) :
                       g_flash_output_buf' =
                           [g_flash_output_buf EXCEPT ![i] = BytesSample(data)]
           /\ read_log' = Append(read_log, addr)
    /\ addr32' = AdvanceRead(addr32)
    /\ i' = i + 1
    /\ pc' = "retrieve_loop"
    /\ UNCHANGED <<flash_addr, flash_addr_buf, out_buf, prog_log, out_log>>

mt25ql256aba_retrieve_samples ==
    /\ \/ RetrieveLoop
       \/ RetrieveReady
       \/ RetrieveRead
    /\ no_store_change

(***************************************************************************)
(* serial_output_flash_data.                                               *)
(***************************************************************************)
\* the four comparisons of a reread record with the record in memory
HighGMatch(out, orig) ==
    /\ out.adxl_data[1] = orig.adxl_data[1]
    /\ out.adxl_data[2] = orig.adxl_data[2]
    /\ out.adxl_data[3] = orig.adxl_data[3]

LowGMatch(out, orig) ==
    /\ out.icm_data[1] = orig.icm_data[1]
    /\ out.icm_data[2] = orig.icm_data[2]
    /\ out.icm_data[3] = orig.icm_data[3]

GyroMatch(out, orig) ==
    /\ out.icm_data[4] = orig.icm_data[4]
    /\ out.icm_data[5] = orig.icm_data[5]
    /\ out.icm_data[6] = orig.icm_data[6]

RtcMatch(out, orig) ==
    /\ out.ds_data[3] = orig.ds_data[3]
    /\ out.ds_data[4] = orig.ds_data[4]
    /\ out.ds_data[1] = orig.ds_data[1]
    /\ out.ds_data[2] = orig.ds_data[2]
    /\ out.ds_data[5] = orig.ds_data[5]
    /\ out.ds_data[6] = orig.ds_data[6]
    /\ out.ds_data[7] = orig.ds_data[7]
    /\ out.ds_data[8] = orig.ds_data[8]

\* an output that prints a record only when the whole record matches
RecordLines_AllOrNothing(k, out, orig) ==
    <<[id |-> k, kind |-> "ID", vals |-> <<>>]>>
    \o (IF out = orig
        THEN <<[id |-> k, kind |-> "High-g", vals |-> out.adxl_data],
               [id |-> k, kind |-> "Low-g", vals |-> SubSeq(out.icm_data, 1, 3)],
               [id |-> k, kind |-> "Gyro", vals |-> SubSeq(out.icm_data, 4, 6)],
               [id |-> k, kind |-> "Date",
                vals |-> <<out.ds_data[2], out.ds_data[3], out.ds_data[1]>>],
               [id |-> k, kind |-> "Time", vals |-> SubSeq(out.ds_data, 5, 8)]>>
        ELSE <<>>)

\* the lines printed for record k: the ID line, then one block per comparison
\* that holds, each under its own if
RecordLines(k, out, orig) ==
    <<[id |-> k, kind |-> "ID", vals |-> <<>>]>>
    \o (IF HighGMatch(out, orig)
        THEN <<[id |-> k, kind |-> "High-g", vals |-> out.adxl_data]>> ELSE <<>>)
    \o (IF LowGMatch(out, orig)
        THEN <<[id |-> k, kind |-> "Low-g", vals |-> SubSeq(out.icm_data, 1, 3)]>>
        ELSE <<>>)
    \o (IF GyroMatch(out, orig)
        THEN <<[id |-> k, kind |-> "Gyro", vals |-> SubSeq(out.icm_data, 4, 6)]>>
        ELSE <<>>)
    \o (IF RtcMatch(out, orig)
        THEN <<[id |-> k, kind |-> "Date",
                vals |-> <<out.ds_data[2], out.ds_data[3], out.ds_data[1]>>],
               [id |-> k, kind |-> "Time", vals |-> SubSeq(out.ds_data, 5, 8)]>>
        ELSE <<>>)

\* an output step without the memset at its end
serial_output_flash_data_NoClear ==
    /\ pc = "output_loop"
    /\ IF i < g_buf_index
       THEN /\ out_log' = out_log \o RecordLines(i, g_flash_output_buf[i], g_sample_set_buf[i])
            /\ i' = i + 1
            /\ pc' = "output_loop"
       ELSE /\ pc' = "done"
            /\ UNCHANGED <<out_log, i>>
    /\ UNCHANGED <<g_flash_output_buf, flash_addr, flash_addr_buf, out_buf, addr32,
                   prog_log, read_log, faulted, flash_vars, faults_left>>
    /\ no_store_change

\* an output step that gives up at the first record that does not match
serial_output_flash_data_StopAtMismatch ==
    /\ pc = "output_loop"
    /\ IF i < g_buf_index /\ g_flash_output_buf[i] = g_sample_set_buf[i]
       THEN /\ out_log' = out_log \o RecordLines(i, g_flash_output_buf[i], g_sample_set_buf[i])
            /\ i' = i + 1
            /\ pc' = "output_loop"
            /\ UNCHANGED g_flash_output_buf
       ELSE /\ g_flash_output_buf' = [k \in BufIndices |-> ZeroSample]
            /\ pc' = "done"
            /\ UNCHANGED <<out_log, i>>
    /\ UNCHANGED <<flash_addr, flash_addr_buf, out_buf, addr32, prog_log, read_log,
                   faulted, flash_vars, faults_left>>
    /\ no_store_change

\* one pass of the for loop per step, then the memset of g_flash_output_buf
serial_output_flash_data ==
    /\ pc = "output_loop"
    /\ IF i < g_buf_index
       THEN /\ out_log' = out_log \o RecordLines(i, g_flash_output_buf[i], g_sample_set_buf[i])
            /\ i' = i + 1
            /\ pc' = "output_loop"
            /\ UNCHANGED g_flash_output_buf
       ELSE /\ g_flash_output_buf' = [k \in BufIndices |-> ZeroSample]
            /\ pc' = "done"
            /\ UNCHANGED <<out_log, i>>
    /\ UNCHANGED <<flash_addr, flash_addr_buf, out_buf, addr32, prog_log, read_log,
                   faulted, flash_vars, faults_left>>
    /\ no_store_change

(***************************************************************************)
(* The specifications.                                                     *)
(***************************************************************************)
Next ==
    \/ mt25ql256aba_startup_test
    \/ icm20649_read_test
    \/ icm20649_write_test
    \/ adxl372_startup_test
    \/ sensor_init
    \/ ds_config
    \/ mt25ql256aba_erase
    \/ vcnl_config
    \/ create_timers
    \/ read_sensor_data
    \/ impact_poll
    \/ measurement_timer_handler
    \/ capture_loop
    \/ sample_impact_data
    \/ timer_stop
    \/ mt25ql256aba_store_samples
    \/ mt25ql256aba_retrieve_samples
    \/ serial_output_flash_data
    \/ FlashComplete

\* the program as main runs it, with no bus fault
Spec == Init /\ [][Next]_vars

\* the store and retrieve steps for whatever base address the caller of
\* mt25ql256aba_store_samples hands it
InitBase ==
    /\ InitWith({2}, {1}, {CleanFlash}, {k * BUF_SIZE : k \in 0..MaxBaseSlots}, 0)
    /\ use_prox = TRUE

SpecBase == InitBase /\ [][Next]_vars

\* the program with bus transactions that fail, on erased flash and on flash with
\* byte 0 of every slot programmed.  main runs on, the flash finishes what it
\* was sent and the timer expires: some step is taken whenever one can be.
InitFault ==
    /\ InitWith({2}, {1}, {CleanFlash, DirtyFlash(0)},
                {LOW_SEGMENT_ADDRESS_START}, MaxFaults)
    /\ use_prox = TRUE

SpecFault == InitFault /\ [][Next]_vars /\ WF_vars(Next)

(***************************************************************************)
(* Properties.                                                             *)
(***************************************************************************)
\* the records serial_output_flash_data has already gone through
Reported == IF pc = "output_loop" THEN 0..(i - 1) ELSE {}

\* the kinds of the measurement lines printed for record k
KindsOf(k) ==
    {out_log[n].kind : n \in {m \in 1..Len(out_log) : out_log[m].id = k}} \ {"ID"}

IdentityMismatch ==
    \/ pc = "flash_check" /\ test_val #
          <<FLASH_DEVICE_ID, FLASH_MEMORY_TYPE, FLASH_MEMORY_CAPACITY>>
    \/ pc = "icm_read_check" /\ test_val # <<ICM_WHO_AM_I>>
    \/ pc = "icm_write_check" /\ test_val # <<ICM_WRITE_READ>>
    \/ pc = "adxl_check" /\ test_val #
          <<ADI_ADXL372_ADI_DEVID_VAL, ADI_ADXL372_MST_DEVID_VAL, ADI_ADXL372_DEVID_VAL>>

\* C2 as claimed: a start-up test that has read any identity value other than the
\* expected constant ends in the halt state, never in the next step of main.
C2_AnyIdentityMismatchHalts ==
    [][(IdentityMismatch /\ pc' # pc) => pc' = "halt"]_vars

\* C3: the buffer length stays within 0..MAX_SAMPLE_BUF_LENGTH; an append at full
\* capacity changes neither the length nor any stored record and goes back to the
\* loop test; and the capture loop is left only once the timer flag is set.
C3_FullBufferDropsSample ==
    /\ [](g_buf_index \in 0..MAX_SAMPLE_BUF_LENGTH)
    /\ [][(pc = "sample_append" /\ g_buf_index = MAX_SAMPLE_BUF_LENGTH)
              => /\ g_buf_index' = g_buf_index
                 /\ g_sample_set_buf' = g_sample_set_buf
                 /\ pc' \in {"sample_append", "capture_loop"}]_vars
    /\ [][(pc = "capture_loop" /\ ~g_measurement_done /\ pc' # pc)
              => pc' = "sample_adxl"]_vars

\* the loop test is reached again after a sample was dropped at full capacity
C3_SampleDropped ==
    /\ pc = "capture_loop"
    /\ g_buf_index = MAX_SAMPLE_BUF_LENGTH
    /\ iterations > MAX_SAMPLE_BUF_LENGTH
    /\ ~g_measurement_done

\* C4 as claimed: when the capture loop exits the buffer length is
\* min(duration / acquisition time, capacity).
C4_LengthIsDurationOverTime ==
    pc = "timer_stop" => g_buf_index = Min(duration \div acq_time, MAX_SAMPLE_BUF_LENGTH)

\* C4 amended: when the capture loop exits the buffer length is min(N, capacity),
\* N the number of iterations started; the iteration in progress when the timer
\* expires is completed, so N is at least ceil(duration / time) and at most
\* floor(duration / time) + 1.
C4_LengthIsIterationsStarted ==
    pc = "timer_stop" =>
        /\ g_buf_index = Min(iterations, MAX_SAMPLE_BUF_LENGTH)
        /\ CeilDiv(duration, acq_time) <= iterations
        /\ iterations <= (duration \div acq_time) + 1

\* the loop exits with the record of an iteration the timer expired in
C4_PartialIterationCounted ==
    /\ pc = "timer_stop"
    /\ duration % acq_time # 0
    /\ g_buf_index = (duration \div acq_time) + 1
    /\ g_buf_index <= MAX_SAMPLE_BUF_LENGTH

\* C5 as claimed: at verification every record whose store and retrieve
\* transactions all succeeded reads back equal to the record in memory.
C5_RoundTrip ==
    pc = "output_loop" =>
        \A k \in 0..(g_buf_index - 1) :
            k \notin faulted => g_flash_output_buf[k] = g_sample_set_buf[k]

\* C6 as claimed: the flash cells a page program of the store step is about to
\* write are all erased.
C6_ProgramTargetsErased ==
    pc = "store_program" =>
        \A k \in 0..(BUF_SIZE - 1) :
            flash[PageAddr(DeviceAddress(flash_addr_buf), k)] = ERASED

\* C7 as claimed: from a program or erase command until a poll has seen the device
\* ready, the only further commands sent are status register reads.
C7_OnlyStatusReadsUntilReady ==
    awaiting_ready =>
        last_cmd \in {"PAGE_PROGRAM", "ERASE_4KB_SUBSECTOR", "READ_STATUS_REGISTER"}

\* C8: a page program is sent right after a write enable, with the latch set; the
\* command after it is the write disable; and a poll has seen the device ready
\* before the read-back and before the loop test for the next record.
C8_ProgramBracketedAndPolled ==
    /\ pc = "store_program" => (last_cmd = "WRITE_ENABLE" /\ wel)
    /\ last_cmd = "PAGE_PROGRAM" => pc = "store_write_disable"
    /\ pc = "store_write_disable" => last_cmd = "PAGE_PROGRAM"
    /\ pc = "store_read" => ~awaiting_ready
    /\ (pc = "store_loop" /\ i > 0) => ~awaiting_ready

\* the second record has been programmed and polled ready, its read-back is next
C8_SecondRecordPolled ==
    /\ pc = "store_read"
    /\ i = 1
    /\ Len(prog_log) = 2
    /\ last_cmd = "READ_STATUS_REGISTER"

C10_CursorAdvancesByRecordSize ==
    /\ [](pc \in {"store_loop", "store_ready", "store_write_enable", "store_program",
                  "store_write_disable", "store_poll", "store_read"}
             => flash_addr = start_addr + BUF_SIZE * i)
    /\ [](pc \in {"retrieve_loop", "retrieve_ready", "retrieve_read", "output_loop", "done"}
             => flash_addr = start_addr + BUF_SIZE * g_buf_index)
    /\ [][flash_addr' >= flash_addr]_vars
    /\ [][flash_addr' # flash_addr => pc \in {"create_timers", "store_read"}]_vars

\* the store step has returned after two records or more
C10_StoreReturned ==
    /\ pc = "retrieve_loop"
    /\ i = 0
    /\ g_buf_index >= 2
    /\ flash_addr = BUF_SIZE * g_buf_index

(***************************************************************************)
(* convert_4byte_address_to_3byte_address on its own: a caller hands it an *)
(* address, it fills the three address bytes.                              *)
(***************************************************************************)
\* addresses of both segments of the device and addresses with bits 24..30 set:
\* 0x20, 0xFFF, 0x1000, 0xFFFF, 0x10000, 0x123456, 0xFFFFFF, 0x1000000, 0x1000020,
\* 0x1123456, 0x1FFFFFF, 0x7F000020, 0x7F123456, 0x7FFFFFFF
CodecAddresses ==
    {0, 32, 4095, 4096, 65535, 65536, 1193046, 16777215, 16777216, 16777248,
     17970262, 33554431, 2130706464, 2131899478, 2147483647}

InitCodec ==
    /\ pc = "codec_pick"
    /\ test_val = <<>>
    /\ m_xfer_done = FALSE
    /\ prox_val = 0
    /\ high_g_data = <<0, 0, 0>>
    /\ low_g_gyro_data = <<0, 0, 0, 0, 0, 0>>
    /\ rtc_data = <<0, 0, 0, 0, 0, 0, 0, 0>>
    /\ get_time_ret = -1
    /\ g_measurement_done = FALSE
    /\ timer = "idle"
    /\ now = 0
    /\ duration = 1
    /\ acq_time = 1
    /\ use_prox = TRUE
    /\ iterations = 0
    /\ g_buf_index = 0
    /\ g_sample_set_buf = [k \in BufIndices |-> ZeroSample]
    /\ g_flash_output_buf = [k \in BufIndices |-> ZeroSample]
    /\ start_addr = LOW_SEGMENT_ADDRESS_START
    /\ flash_addr = 0
    /\ i = 0
    /\ flash_addr_buf = <<0, 0, 0>>
    /\ out_buf = [k \in 1..BUF_SIZE |-> 0]
    /\ addr32 = 0
    /\ flash = CleanFlash
    /\ flash_busy = FALSE
    /\ wel = FALSE
    /\ last_cmd = "NONE"
    /\ awaiting_ready = FALSE
    /\ prog_log = <<>>
    /\ read_log = <<>>
    /\ faults_left = 0
    /\ faulted = {}
    /\ out_log = <<>>

no_codec_change ==
    UNCHANGED <<test_val, m_xfer_done, prox_val, capture_vars, duration, acq_time, use_prox,
                start_addr, g_flash_output_buf, i, out_buf, addr32, prog_log, read_log,
                out_log, faulted, flash_vars, faults_left>>

\* the caller's uint32_t flash_addr argument
codec_pick ==
    /\ pc = "codec_pick"
    /\ \E a \in CodecAddresses : flash_addr' = a
    /\ pc' = "codec_convert"
    /\ UNCHANGED flash_addr_buf
    /\ no_codec_change

\* the call: flash_addr_buf[0..2] are written
codec_convert ==
    /\ pc = "codec_convert"
    /\ flash_addr_buf' = convert_4byte_address_to_3byte_address(flash_addr)
    /\ pc' = "codec_pick"
    /\ UNCHANGED flash_addr
    /\ no_codec_change

NextCodec ==
    \/ codec_pick
    \/ codec_convert

SpecCodec == InitCodec /\ [][NextCodec]_vars

\* C11: after a conversion the three address bytes are bytes, most significant
\* first they re-assemble to the low 24 bits of the address, and every address
\* that differs from it only in bits 24 and up converts to the same three bytes.
C11_LowThreeBytesMostSignificantFirst ==
    pc = "codec_pick" =>
        /\ Len(flash_addr_buf) = 3
        /\ \A k \in 1..3 : flash_addr_buf[k] \in 0..255
        /\ flash_addr_buf[1] * 65536 + flash_addr_buf[2] * 256 + flash_addr_buf[3]
              = flash_addr % 16777216
        /\ \A b \in CodecAddresses :
              (b % 16777216 = flash_addr % 16777216)
                  => convert_4byte_address_to_3byte_address(b) = flash_addr_buf

\* 0x01123456 has been converted to 0x12, 0x34, 0x56: the top byte is gone
C11_TopByteDiscarded ==
    /\ pc = "codec_pick"
    /\ flash_addr = 17970262
    /\ flash_addr_buf = <<18, 52, 86>>

C13_WaitAfterTransferReturns ==
    pc \in {"ds_config_wait", "ds_config_time_wait", "vcnl_config_wait",
            "vcnl_config_conf1_wait", "read_register", "sample_rtc"}
        => m_xfer_done

\* the lines printed for record k, in order
LinesOf(k) ==
    LET ForK(l) == l.id = k
    IN  SelectSeq(out_log, ForK)

\* the lines the run without any fault prints for record k
ExpectedLines(k) ==
    LET orig == g_sample_set_buf[k]
    IN  <<[id |-> k, kind |-> "ID", vals |-> <<>>],
          [id |-> k, kind |-> "High-g", vals |-> orig.adxl_data],
          [id |-> k, kind |-> "Low-g", vals |-> SubSeq(orig.icm_data, 1, 3)],
          [id |-> k, kind |-> "Gyro", vals |-> SubSeq(orig.icm_data, 4, 6)],
          [id |-> k, kind |-> "Date",
           vals |-> <<orig.ds_data[2], orig.ds_data[3], orig.ds_data[1]>>],
          [id |-> k, kind |-> "Time", vals |-> SubSeq(orig.ds_data, 5, 8)]>>

\* the reread copy of record k is not the record in memory
Differs(k) == g_flash_output_buf[k] # g_sample_set_buf[k]

\* every record has been through the output step, the memset has not run yet
AllReported == pc = "output_loop" /\ i = g_buf_index

C15_FlashMismatchHaltsForGood ==
    /\ [][(/\ pc = "flash_check"
           /\ test_val # <<FLASH_DEVICE_ID, FLASH_MEMORY_TYPE, FLASH_MEMORY_CAPACITY>>
           /\ pc' # pc)
              => pc' = "halt"]_vars
    /\ [][pc = "halt" => vars' = vars]_vars
    /\ [](pc = "halt" => out_log = <<>>)

\* main is halted after a capacity byte that was not 0x19, the other two matching
C15_HaltedOnCapacityByte ==
    /\ pc = "halt"
    /\ Len(test_val) = 3
    /\ test_val[1] = FLASH_DEVICE_ID
    /\ test_val[2] = FLASH_MEMORY_TYPE
    /\ test_val[3] # FLASH_MEMORY_CAPACITY
    /\ last_cmd = "READ_ID"
    /\ out_log = <<>>

\* the program with no bus fault on erased flash; main runs on, the flash finishes
\* what it was sent and the timer expires: some step is taken whenever one can be
InitCapture ==
    /\ InitWith(1..MaxDuration, 1..MaxAcqTime, {CleanFlash}, {LOW_SEGMENT_ADDRESS_START}, 0)
    /\ use_prox = TRUE

SpecCapture == InitCapture /\ [][Next]_vars /\ WF_vars(Next)

\* C16: while the capture-complete flag is set no iteration is started; the loop
\* test that finds it set goes to the timer stop, which stops the timer; and from
\* the moment the flag is set main gets to the store step with the timer stopped.
C16_FlagEndsCapture ==
    /\ [][g_measurement_done => iterations' = iterations]_vars
    /\ [][(g_measurement_done /\ pc = "capture_loop" /\ pc' # pc)
              => pc' = "timer_stop"]_vars
    /\ [][(pc = "timer_stop" /\ pc' # pc) => timer' = "stopped"]_vars
    /\ (g_measurement_done ~> (pc = "store_loop" /\ timer = "stopped"))

\* the timer expired during an iteration; that iteration was finished, no other
\* was started and the timer has been stopped
C16_StoppedAfterIterationInProgress ==
    /\ pc = "flag_reset"
    /\ timer = "stopped"
    /\ g_measurement_done
    /\ now > duration
    /\ iterations = CeilDiv(duration, acq_time)

\* C17 as claimed: the impact poll goes to the capture loop only on a reading with
\* an axis magnitude above the threshold, and on a reading with every axis at or
\* below the threshold it stays in the poll and leaves the timer alone.
C17_LeavesOnlyAboveThreshold ==
    [][pc = "impact_poll" =>
          /\ pc' = "capture_loop"
                => \E k \in 1..3 : Abs(high_g_data'[k]) > IMPACT_G_THRESHOLD
          /\ (\A k \in 1..3 : Abs(high_g_data'[k]) <= IMPACT_G_THRESHOLD)
                => (pc' = "impact_poll" /\ timer' = timer)]_vars

\* C17 amended: the impact poll goes to the capture loop, arming the timer, exactly
\* on a reading with an axis magnitude at or above the threshold; on a reading
\* with every axis below the threshold it stays in the poll with the timer idle.
C17_LeavesAtOrAboveThreshold ==
    /\ [][pc = "impact_poll" =>
             /\ (\E k \in 1..3 : Abs(high_g_data'[k]) >= IMPACT_G_THRESHOLD)
                   = (pc' = "capture_loop" /\ timer' = "armed")
             /\ (\A k \in 1..3 : Abs(high_g_data'[k]) < IMPACT_G_THRESHOLD)
                   = (pc' = "impact_poll" /\ timer' = timer)]_vars
    /\ [](pc = "impact_poll" => timer = "idle")

\* the capture loop was entered on a reading whose largest magnitude is the threshold
C17_TriggeredAtThreshold ==
    /\ pc = "capture_loop"
    /\ timer = "armed"
    /\ iterations = 0
    /\ high_g_data = <<0, -IMPACT_G_THRESHOLD, 5>>

\* the low-g and gyro values after one conversion of a raw reading
ConvertedOnce == {icm20649_convert_data(r) : r \in IcmReadings}

\* C18: the low-g and gyro values are raw when the conversion is about to run and
\* converted once from then until the append; every record in the buffer holds
\* values converted once: not raw ones, not ones converted twice.
C18_EachReadingConvertedOnce ==
    /\ pc = "sample_convert" => low_g_gyro_data \in IcmReadings
    /\ pc \in {"sample_rtc", "read_register", "sample_append"}
          => low_g_gyro_data \in ConvertedOnce
    /\ \A k \in 0..(g_buf_index - 1) :
          /\ g_sample_set_buf[k].icm_data \in ConvertedOnce
          /\ g_sample_set_buf[k].icm_data \notin IcmReadings
          /\ g_sample_set_buf[k].icm_data
                \notin {icm20649_convert_data(v) : v \in ConvertedOnce}

\* two records are in the buffer, the second with 1024, -512, 2048 counts as 1000,
\* -500, 2000 mg and 100, -200, 300 counts as 106, -213, 319 mrad/s
C18_SecondRecordConverted ==
    /\ pc = "capture_loop"
    /\ g_buf_index >= 2
    /\ g_sample_set_buf[1].icm_data = <<1000, -500, 2000, 106, -213, 319>>

\* C19: in the final wait every field of every entry of g_flash_output_buf is 0,
\* and from then on main does nothing: it stays there, reads no sensor, starts no
\* timer, stores no record, sends the flash no command and prints no line.
C19_DoneIsFinalAndBufferCleared ==
    /\ [](pc = "done" =>
             \A k \in BufIndices :
                /\ \A n \in 1..3 : g_flash_output_buf[k].adxl_data[n] = 0
                /\ \A n \in 1..6 : g_flash_output_buf[k].icm_data[n] = 0
                /\ \A n \in 1..8 : g_flash_output_buf[k].ds_data[n] = 0)
    /\ [][pc = "done" =>
             UNCHANGED <<pc, prox_val, high_g_data, low_g_gyro_data, rtc_data,
                         g_measurement_done, timer, iterations, g_buf_index,
                         g_sample_set_buf, g_flash_output_buf, flash_addr, flash,
                         last_cmd, prog_log, read_log, out_log>>]_vars

\* the final wait after an episode that filled the buffer and was reported
C19_DoneAfterFullEpisode ==
    /\ pc = "done"
    /\ g_buf_index = MAX_SAMPLE_BUF_LENGTH
    /\ Len(read_log) = g_buf_index
    /\ Len(out_log) >= g_buf_index
    /\ g_sample_set_buf[0] # ZeroSample

\* C20 as claimed: on the happy path (every start-up test passed, the proximity
\* reading two above its threshold, an impact detected, the acquisition time
\* dividing the capture window, the quotient within the capacity, no bus fault)
\* the buffer holds the window's records, each was programmed once and reread
\* equal, and every one of them is reported in full.
C20_HappyPathAllVerified ==
    (/\ AllReported
     /\ prox_val = PROX_THRESHOLD + 2
     /\ faulted = {}
     /\ duration % acq_time = 0
     /\ duration \div acq_time <= MAX_SAMPLE_BUF_LENGTH)
        => /\ g_buf_index >= duration \div acq_time
           /\ Len(prog_log) = g_buf_index
           /\ \A k \in 0..((duration \div acq_time) - 1) :
                 ~Differs(k) /\ LinesOf(k) = ExpectedLines(k)

\* C21: the timer is armed only by the impact poll, from idle, and is never idle
\* again, so it is armed once in an episode; when the capture loop is evaluated
\* for the first time the timer is armed and the capture-complete flag is false,
\* and that evaluation starts an iteration.
C21_ArmedOnceAndFlagFalseAtFirstTest ==
    /\ [][timer' # timer /\ timer' = "armed" => timer = "idle" /\ pc = "impact_poll"]_vars
    /\ [][timer # "idle" => timer' # "idle"]_vars
    /\ [](pc = "capture_loop" /\ iterations = 0
             => timer = "armed" /\ g_measurement_done = FALSE)
    /\ [][(pc = "capture_loop" /\ iterations = 0 /\ pc' # pc)
              => pc' = "sample_adxl" /\ iterations' = 1]_vars

\* the first iteration has been started with the timer armed and the flag false
C21_FirstIterationStarted ==
    /\ pc = "sample_adxl"
    /\ iterations = 1
    /\ timer = "armed"
    /\ g_measurement_done = FALSE
    /\ g_buf_index = 0

\* the timestamp get_time reads in the n-th acquisition of an episode (n from 1)
AcquisitionTime(n) == get_time(RtcRegs(n * acq_time))

\* C22: an acquisition reads the high-g accelerometer, then the low-g and gyro
\* values, converts them, reads the clock last and then appends; each of main's
\* three structs is written by its own read only; the append stores the three
\* structs as they are at index g_buf_index; a stored record never changes and
\* the length never decreases; and the record at index k carries the timestamp of
\* acquisition k + 1, the first MAX_SAMPLE_BUF_LENGTH acquisitions being kept.
C22_ReadOrderAndAppendOrder ==
    /\ [][(pc = "sample_adxl" /\ pc' # pc) => pc' = "sample_icm"]_vars
    /\ [][(pc = "sample_icm" /\ pc' # pc) => pc' = "sample_convert"]_vars
    /\ [][(pc = "sample_convert" /\ pc' # pc) => pc' = "sample_rtc"]_vars
    /\ [][(pc = "sample_rtc" /\ pc' # pc) => pc' = "sample_append"]_vars
    /\ [][(pc = "sample_append" /\ pc' # pc) => pc' = "capture_loop"]_vars
    /\ [][high_g_data' # high_g_data => pc \in {"impact_poll", "sample_adxl"}]_vars
    /\ [][low_g_gyro_data' # low_g_gyro_data => pc \in {"sample_icm", "sample_convert"}]_vars
    /\ [][rtc_data' # rtc_data => pc = "sample_rtc"]_vars
    /\ [][g_sample_set_buf' # g_sample_set_buf =>
             /\ pc = "sample_append"
             /\ g_buf_index < MAX_SAMPLE_BUF_LENGTH
             /\ g_buf_index' = g_buf_index + 1
             /\ g_sample_set_buf'[g_buf_index] =
                    [adxl_data |-> high_g_data, icm_data |-> low_g_gyro_data,
                     ds_data |-> rtc_data]]_vars
    /\ [][/\ g_buf_index' >= g_buf_index
          /\ \A k \in 0..(g_buf_index - 1) : g_sample_set_buf'[k] = g_sample_set_buf[k]]_vars
    /\ [](pc = "sample_append" => rtc_data = AcquisitionTime(iterations))
    /\ [](\A k \in 0..(g_buf_index - 1) :
             g_sample_set_buf[k].ds_data = AcquisitionTime(k + 1))
    /\ [](pc \in {"capture_loop", "timer_stop"}
             => g_buf_index = Min(iterations, MAX_SAMPLE_BUF_LENGTH))

\* the buffer is full of records with different timestamps, in the order of their
\* acquisition, and a later acquisition has left them as they were
C22_FullBufferInAcquisitionOrder ==
    /\ pc = "capture_loop"
    /\ g_buf_index = MAX_SAMPLE_BUF_LENGTH
    /\ iterations > MAX_SAMPLE_BUF_LENGTH
    /\ \A k \in 0..(g_buf_index - 2) :
          g_sample_set_buf[k].ds_data[8] < g_sample_set_buf[k + 1].ds_data[8]
    /\ rtc_data # g_sample_set_buf[MAX_SAMPLE_BUF_LENGTH - 1].ds_data

\* where main is inside mt25ql256aba_store_samples
StorePcs ==
    {"store_loop", "store_ready", "store_write_enable", "store_program",
     "store_write_disable", "store_poll", "store_read"}

\* C23: in the store step the read-back of record i is issued with record i
\* programmed, the poll after it returned and the device idle; it is the only
\* step that writes g_flash_output_buf, and it writes entry i; the steps of one
\* record follow one another (poll, write enable, program, write disable, poll,
\* read-back) before the loop test for the next; and a page program is sent only
\* when every record before it has been programmed and read back.
C23_StoreAndReadBackSerialized ==
    /\ [](pc = "store_read" =>
             /\ Len(prog_log) = i + 1
             /\ prog_log[i + 1] = DeviceAddress(flash_addr_buf)
             /\ last_cmd = "READ_STATUS_REGISTER"
             /\ ~awaiting_ready
             /\ ~flash_busy)
    /\ [][(pc \in StorePcs /\ g_flash_output_buf' # g_flash_output_buf) =>
             /\ pc = "store_read"
             /\ last_cmd' = "READ"
             /\ i' = i + 1
             /\ \A k \in BufIndices \ {i} : g_flash_output_buf'[k] = g_flash_output_buf[k]]_vars
    /\ [][(pc = "store_ready" /\ pc' # pc) => pc' = "store_write_enable"]_vars
    /\ [][(pc = "store_write_enable" /\ pc' # pc) => pc' = "store_program"]_vars
    /\ [][(pc = "store_program" /\ pc' # pc) => pc' = "store_write_disable"]_vars
    /\ [][(pc = "store_write_disable" /\ pc' # pc) => pc' = "store_poll"]_vars
    /\ [][(pc = "store_poll" /\ pc' # pc) => pc' = "store_read"]_vars
    /\ [][(pc = "store_read" /\ pc' # pc) => pc' = "store_loop"]_vars
    /\ [][(pc \in StorePcs /\ i' # i) => pc = "store_read" \/ pc' = "retrieve_loop"]_vars
    /\ [][(last_cmd' \in {"WRITE_ENABLE", "PAGE_PROGRAM"} /\ last_cmd' # last_cmd
              /\ pc \in StorePcs) =>
             /\ Len(prog_log) = i
             /\ ~flash_busy
             /\ \A k \in 0..(i - 1) :
                   g_flash_output_buf[k] = BytesSample(DevRead(flash, prog_log[k + 1], BUF_SIZE))]_vars

\* record 0 has been programmed and read back, the write enable of record 1 is
\* next and nothing of record 1 has been read back yet
C23_FirstReadBackBeforeSecondProgram ==
    /\ pc = "store_write_enable"
    /\ i = 1
    /\ Len(prog_log) = 1
    /\ g_flash_output_buf[0] = g_sample_set_buf[0]
    /\ g_flash_output_buf[0] # ZeroSample
    /\ g_flash_output_buf[1] = ZeroSample

\* where main is before the proximity loop has been left
BeforeArming ==
    {"flash_test", "flash_check", "icm_read_test", "icm_read_check", "icm_write_test",
     "icm_write_check", "adxl_test", "adxl_check", "halt", "sensor_init", "ds_config",
     "ds_config_wait", "ds_config_time", "ds_config_time_wait", "erase", "erase_wren",
     "erase_cmd", "erase_wrdi", "vcnl_config", "vcnl_config_wait", "vcnl_config_conf1",
     "vcnl_config_conf1_wait", "create_timers", "read_sensor_data", "prox_loop"}

\* C24: the proximity loop is left only with a proximity value above
\* PROX_THRESHOLD, and then for the impact poll; with a value at or below the
\* threshold it is not left; and as long as no value above the threshold has been
\* read no impact reading has been taken, the timer is idle, no iteration has
\* been started and the buffer is empty.
C24_NothingBeforeProximityAboveThreshold ==
    /\ [][(pc = "prox_loop" /\ pc' # pc) =>
             (prox_val > PROX_THRESHOLD /\ pc' = "impact_poll")]_vars
    /\ [][(pc = "prox_loop" /\ prox_val <= PROX_THRESHOLD) => pc' = "prox_loop"]_vars
    /\ [](pc \notin BeforeArming => prox_val > PROX_THRESHOLD)
    /\ [](prox_val <= PROX_THRESHOLD =>
             /\ pc \in BeforeArming
             /\ high_g_data = <<0, 0, 0>>
             /\ timer = "idle"
             /\ ~g_measurement_done
             /\ iterations = 0
             /\ g_buf_index = 0)

\* a proximity reading equal to the threshold has been taken and main is still in
\* the proximity loop
C24_ReadingAtThresholdKeepsWaiting ==
    /\ pc = "prox_loop"
    /\ m_xfer_done
    /\ prox_val = PROX_THRESHOLD
    /\ timer = "idle"

\* C25: during the store step the cursor is the segment start plus 32 bytes per
\* record stored, at most 32 * (MAX_SAMPLE_BUF_LENGTH - 1) when it is converted;
\* it lies in the low segment, so the three address bytes decode to the cursor
\* itself; and after the last record it is still not past the segment's end.
C25_CursorWithinLowSegment ==
    /\ pc \in {"store_loop", "store_ready", "store_write_enable", "store_program",
                "store_write_disable", "store_poll", "store_read"} =>
           /\ flash_addr \in LOW_SEGMENT_ADDRESS_START..LOW_SEGMENT_ADDRESS_END
           /\ flash_addr <= LOW_SEGMENT_ADDRESS_START + BUF_SIZE * MAX_SAMPLE_BUF_LENGTH
           /\ DeviceAddress(convert_4byte_address_to_3byte_address(flash_addr)) = flash_addr
    /\ pc \in {"store_write_enable", "store_program", "store_write_disable", "store_poll",
                "store_read"} =>
           /\ DeviceAddress(flash_addr_buf) = flash_addr
           /\ flash_addr <= LOW_SEGMENT_ADDRESS_START + BUF_SIZE * (MAX_SAMPLE_BUF_LENGTH - 1)
    /\ flash_addr \in LOW_SEGMENT_ADDRESS_START..(LOW_SEGMENT_ADDRESS_END + 1)
    /\ \A k \in 1..Len(prog_log) :
           prog_log[k] \in LOW_SEGMENT_ADDRESS_START..LOW_SEGMENT_ADDRESS_END

\* the last record of a full buffer is being programmed at 32 * (capacity - 1)
C25_LastRecordOfFullBuffer ==
    /\ pc = "store_program"
    /\ g_buf_index = MAX_SAMPLE_BUF_LENGTH
    /\ i = MAX_SAMPLE_BUF_LENGTH - 1
    /\ flash_addr = BUF_SIZE * (MAX_SAMPLE_BUF_LENGTH - 1)
    /\ flash_addr_buf = <<0, 0, flash_addr>>

\* where main is inside mt25ql256aba_check_ready_flag
ReadyPollPcs == {"erase", "store_ready", "store_poll", "retrieve_ready"}

HourRegisters == 0..255

\* the struct of get_time seen as the registers it was filled from
RegsOf(date) ==
    [year |-> date[1], month |-> date[2], date |-> date[3], day |-> date[4],
     hour |-> date[5], minute |-> date[6], second |-> date[7], hundred |-> date[8]]

InitClock ==
    /\ pc = "clock_read"
    /\ test_val = <<>>
    /\ m_xfer_done = TRUE
    /\ prox_val = 0
    /\ high_g_data = <<0, 0, 0>>
    /\ low_g_gyro_data = <<0, 0, 0, 0, 0, 0>>
    /\ rtc_data = <<0, 0, 0, 0, 0, 0, 0, 0>>
    /\ get_time_ret = -1
    /\ g_measurement_done = FALSE
    /\ timer = "idle"
    /\ now = 0
    /\ duration = 1
    /\ acq_time = 1
    /\ use_prox = TRUE
    /\ iterations = 0
    /\ g_buf_index = 0
    /\ g_sample_set_buf = [k \in BufIndices |-> ZeroSample]
    /\ g_flash_output_buf = [k \in BufIndices |-> ZeroSample]
    /\ start_addr = LOW_SEGMENT_ADDRESS_START
    /\ flash_addr = 0
    /\ i = 0
    /\ flash_addr_buf = <<0, 0, 0>>
    /\ out_buf = [k \in 1..BUF_SIZE |-> 0]
    /\ addr32 = 0
    /\ flash = CleanFlash
    /\ flash_busy = FALSE
    /\ wel = FALSE
    /\ last_cmd = "NONE"
    /\ awaiting_ready = FALSE
    /\ prog_log = <<>>
    /\ read_log = <<>>
    /\ faults_left = 0
    /\ faulted = {}
    /\ out_log = <<>>

no_clock_change ==
    UNCHANGED <<test_val, m_xfer_done, prox_val, high_g_data, low_g_gyro_data,
                g_measurement_done, timer, now, iterations, g_buf_index,
                g_sample_set_buf, duration, acq_time, use_prox, start_addr, store_vars,
                flash_vars, faults_left>>

\* date->year = readRegister(YEAR_REG) ... date->hundreth = readRegister(HUNDRED_SEC_REG)
clock_read ==
    /\ pc = "clock_read"
    /\ \E h \in HourRegisters :
          LET regs == RtcRegs(0)
          IN  rtc_data' = <<regs.year, regs.month, regs.date, regs.day, h, regs.minute,
                            regs.second, regs.hundred>>
    /\ pc' = "clock_process"
    /\ UNCHANGED get_time_ret
    /\ no_clock_change

\* the time processing of get_time and its return
clock_process ==
    /\ pc = "clock_process"
    /\ rtc_data' = get_time(RegsOf(rtc_data))
    /\ get_time_ret' = get_time_return(rtc_data[5])
    /\ pc' = "clock_read"
    /\ no_clock_change

NextClock ==
    \/ clock_read
    \/ clock_process

SpecClock == InitClock /\ [][NextClock]_vars

\* C27: get_time returns 2 when bit 0x40 of the hour register is clear, and
\* otherwise 0 when bit 0x20 is clear and 1 when it is set; when bit 0x40 is set
\* the hour it stores is ten times bit 0x10 plus the low four bits of the
\* register, whatever bits 0x20, 0x40 and 0x80 are; when it is clear the hour is
\* the register less six times its high four bits.
C27_ReturnIsModeAndHourIsMasked ==
    [][pc = "clock_process" =>
          LET reg  == rtc_data[5]
              b6   == BitAnd(reg, HOUR_MODE_12, 8)
              b5   == BitAnd(reg, PM, 8)
              low5 == BitAnd(reg, 31, 8)
          IN  /\ b6 = 0 => /\ get_time_ret' = 2
                           /\ rtc_data'[5] = (reg - 6 * (reg \div 16)) % 256
              /\ (b6 # 0 /\ b5 = 0) => get_time_ret' = 0
              /\ (b6 # 0 /\ b5 # 0) => get_time_ret' = 1
              /\ b6 # 0 => /\ rtc_data'[5] = 10 * (low5 \div 16) + (low5 % 16)
                           /\ rtc_data'[5] =
                                 GetTimeHour(HOUR_MODE_12 + low5)
                           /\ rtc_data'[5] <= 25
              /\ get_time_ret' \in {0, 1, 2}]_vars

\* get_time has returned 1 and stored 12 for an hour register of 0x72: twelve
\* o'clock PM in 12-hour mode
C27_TwelvePm ==
    /\ pc = "clock_read"
    /\ get_time_ret = 1
    /\ rtc_data[5] = 12

\* where main is from the store step on
FromStoring ==
    StorePcs \cup {"retrieve_loop", "retrieve_ready", "retrieve_read", "output_loop", "done"}

\* C28: the flag is set only by the expiry of the armed timer, which then is no
\* longer armed and is never armed again, so it is set once; it stays set while
\* the timer is in its fired state; main clears it only after the loop test has
\* seen it set and the timer has been stopped; it is false from the store step
\* on; and an armed timer leads to the store step with the flag cleared.
C28_ExpirySeenOnceThenCleared ==
    /\ [][(~g_measurement_done /\ g_measurement_done')
              => (timer = "armed" /\ timer' = "fired")]_vars
    /\ [][(timer = "fired" \/ timer = "stopped") => timer' # "armed"]_vars
    /\ [](timer = "fired" => g_measurement_done)
    /\ [](pc \in {"timer_stop", "flag_reset"} => g_measurement_done)
    /\ [][(g_measurement_done /\ ~g_measurement_done')
              => (pc = "flag_reset" /\ timer = "stopped" /\ pc' = "store_loop")]_vars
    /\ [](pc \in FromStoring => (~g_measurement_done /\ timer = "stopped"))
    /\ (timer = "armed" ~> (pc = "store_loop" /\ ~g_measurement_done))

\* the store step begins with the timer stopped and the flag cleared after an
\* episode of two iterations or more
C28_FlagClearedBeforeStore ==
    /\ pc = "store_loop"
    /\ i = 0
    /\ timer = "stopped"
    /\ ~g_measurement_done
    /\ iterations >= 2
    /\ Len(prog_log) = 0

\* the program built with and without USE_PROX, with no bus fault on erased flash
InitBuild ==
    /\ InitWith({2}, {1}, {CleanFlash}, {LOW_SEGMENT_ADDRESS_START}, 0)
    /\ use_prox \in BOOLEAN

SpecBuild == InitBuild /\ [][Next]_vars

\* n readRegister calls in a row, each acknowledged, all find m_xfer_done set at
\* their wait when the first finds it `done': each sets it false and its own
\* transfer's NRF_DRV_TWI_EVT_DONE sets it again
RECURSIVE ReadsFindFlagSet(_, _)
ReadsFindFlagSet(done, n) ==
    IF n = 0 THEN TRUE
    ELSE done /\ ReadsFindFlagSet(twi_handler("DONE", FALSE), n - 1)

\* C29: in a run without NACK, built with or without USE_PROX, m_xfer_done is set
\* whenever get_time is about to be called in the capture loop, and each of its
\* eight readRegister calls then finds it set; it is set from the impact poll to
\* the end of the episode, so main never waits in readRegister.
C29_RegisterReadFindsTransferDone ==
    /\ pc = "sample_rtc" => (m_xfer_done /\ ReadsFindFlagSet(m_xfer_done, 8))
    /\ pc # "read_register"
    /\ pc \in {"impact_poll", "capture_loop", "sample_adxl", "sample_icm", "sample_convert",
                "sample_rtc", "sample_append", "timer_stop", "flag_reset"} => m_xfer_done
    /\ (pc = "create_timers" /\ ~use_prox) => m_xfer_done
    /\ ~use_prox => (prox_val = 0 /\ pc \notin {"vcnl_config", "vcnl_config_wait",
                                                "vcnl_config_conf1", "vcnl_config_conf1_wait",
                                                "read_sensor_data", "prox_loop"})

\* the build without USE_PROX is about to read the clock in its second acquisition
C29_SecondClockReadWithoutProx ==
    /\ pc = "sample_rtc"
    /\ ~use_prox
    /\ iterations = 2
    /\ g_buf_index = 1
    /\ m_xfer_done

\* a proximity read that returns a value above the threshold
ProxAboveThreshold == read_sensor_data /\ prox_val' > PROX_THRESHOLD

\* an impact poll that reads a value at or above the threshold
ImpactAtOrAboveThreshold == impact_poll /\ pc' = "capture_loop"

\* the program with no bus fault, on erased flash and on flash with byte 0 of
\* every slot programmed, under the conditions of a run that goes through: main
\* runs on, the flash finishes each program and erase, the timer expires, a
\* proximity reading above the threshold and an impact reading at or above it
\* come at some time
InitLive ==
    /\ InitWith(1..MaxDuration, 1..MaxAcqTime, {CleanFlash, DirtyFlash(0)},
                {LOW_SEGMENT_ADDRESS_START}, 0)
    /\ use_prox = TRUE

SpecLive ==
    /\ InitLive
    /\ [][Next]_vars
    /\ WF_vars(Next)
    /\ WF_vars(FlashComplete)
    /\ WF_vars(measurement_timer_handler)
    /\ WF_vars(ProxAboveThreshold)
    /\ WF_vars(ImpactAtOrAboveThreshold)

\* C30: once the start-up tests have all passed main gets to the final wait; there
\* the buffer holds min(iterations, capacity) records, one at least, each was
\* programmed once at its address and read once by the retrieve step, and the
\* output step has printed the ID line of each; and a record whose reread copy
\* equals memory has all its lines printed.
C30_PassedTestsLeadToDone ==
    /\ (pc = "sensor_init" ~> pc = "done")
    /\ [](pc = "done" =>
             /\ g_buf_index = Min(iterations, MAX_SAMPLE_BUF_LENGTH)
             /\ g_buf_index >= 1
             /\ Len(prog_log) = g_buf_index
             /\ Len(read_log) = g_buf_index
             /\ \A k \in 0..(g_buf_index - 1) :
                   /\ prog_log[k + 1] = LOW_SEGMENT_ADDRESS_START + BUF_SIZE * k
                   /\ Len(LinesOf(k)) >= 1
                   /\ LinesOf(k)[1] = [id |-> k, kind |-> "ID", vals |-> <<>>])
    /\ [](AllReported =>
             \A k \in 0..(g_buf_index - 1) : ~Differs(k) => LinesOf(k) = ExpectedLines(k))

\* the final wait after a proximity reading of two above the threshold, an impact
\* at the threshold and two records, each printed with its six lines
C30_DoneWithTwoRecordsReported ==
    /\ pc = "done"
    /\ prox_val = PROX_THRESHOLD + 2
    /\ timer = "stopped"
    /\ g_buf_index = 2
    /\ Len(prog_log) = 2
    /\ Len(out_log) = 12

\* the steps of the four start-up tests in the order main takes them
SelfTestOrder ==
    <<"flash_test", "flash_check", "icm_read_test", "icm_read_check", "icm_write_test",
      "icm_write_check", "adxl_test", "adxl_check">>

SelfTestPcs == Range(SelfTestOrder)

\* the step main takes after step k of the tests when the test does not halt
AfterSelfTest(k) == IF k = Len(SelfTestOrder) THEN "sensor_init" ELSE SelfTestOrder[k + 1]

\* the commands that enable writing or change the array
ModifyingCommands == {"WRITE_ENABLE", "ERASE_4KB_SUBSECTOR", "PAGE_PROGRAM"}

\* C31: main starts in the flash test, leaves each step of the four start-up
\* tests only for the next one or for the halt, and so gets past them only when
\* all four have returned; up to there and in the halt the flash has been sent
\* nothing but READ ID, its write-enable latch and busy bit are clear, nothing
\* has been programmed and no step has changed its contents; a write enable, an
\* erase or a page program is sent only by a step that lies after the tests.
C31_NoFlashChangeBeforeTestsReturn ==
    /\ pc = "flash_test"
    /\ [][\A k \in 1..Len(SelfTestOrder) :
             (pc = SelfTestOrder[k] /\ pc' # pc) => pc' \in {AfterSelfTest(k), "halt"}]_vars
    /\ [][(pc' \in SelfTestPcs /\ pc' # pc) => pc \in SelfTestPcs]_vars
    /\ [][(pc \in SelfTestPcs \cup {"halt"}) =>
             /\ flash' = flash
             /\ wel' = wel
             /\ flash_busy' = flash_busy
             /\ last_cmd' \notin ModifyingCommands]_vars
    /\ [][(pc = "halt") => pc' = "halt"]_vars
    /\ [](pc \in SelfTestPcs \cup {"halt"} =>
             /\ last_cmd \in {"NONE", "READ_ID"}
             /\ ~wel
             /\ ~flash_busy
             /\ ~awaiting_ready
             /\ prog_log = <<>>
             /\ flash \in {CleanFlash, DirtyFlash(0)})
    /\ [](last_cmd \in ModifyingCommands => pc \notin SelfTestPcs \cup {"halt"})

\* main is halted in the ADXL372 test, the three tests before it having returned,
\* on flash that held programmed bytes: they are as they were
C31_HaltedInAdxlTestOnUsedFlash ==
    /\ pc = "halt"
    /\ Len(test_val) = 3
    /\ test_val[3] # ADI_ADXL372_DEVID_VAL
    /\ last_cmd = "READ_ID"
    /\ flash = DirtyFlash(0)

\* the bases of a store step whose records lie at the start of the segment, end
\* at the end of a page, or start at the last slot of a page
PageBases == {LOW_SEGMENT_ADDRESS_START, PAGE_SIZE - 2 * BUF_SIZE, PAGE_SIZE - BUF_SIZE}

\* erased flash from address 0 to the last slot a store step from those bases uses
PageFlash == [a \in 0..(PAGE_SIZE + BUF_SIZE * MAX_SAMPLE_BUF_LENGTH - 1) |-> ERASED]

\* the store step at the start of the segment and across the end of the first
\* page, where the slots of a longer buffer lie
InitPage ==
    /\ InitWith({2}, {1}, {PageFlash}, PageBases, 0)
    /\ use_prox = TRUE

SpecPage == InitPage /\ [][Next]_vars

\* the cells of the 32-byte slot at addr
SlotCells(addr) == addr..(addr + BUF_SIZE - 1)

\* C32: the page program the store step is about to send has an address that is
\* a multiple of 32 and the cursor's value, and 32 data bytes of which those past
\* sizeof(impact_sample_t) are zero; the 32 bytes end within the page they start
\* in; the slots of the programs sent are pairwise disjoint; a step that changes
\* the array is a page program and changes cells of its own slot only; and the
\* cells past the record in every programmed slot read zero.
C32_ProgramsAlignedDisjointAndPadded ==
    /\ [](pc = "store_program" =>
             /\ DeviceAddress(flash_addr_buf) % BUF_SIZE = 0
             /\ DeviceAddress(flash_addr_buf) = flash_addr
             /\ flash_addr = start_addr + BUF_SIZE * i
             /\ Len(StoreBuf(i)) = BUF_SIZE
             /\ \A k \in (SampleSize + 1)..BUF_SIZE : StoreBuf(i)[k] = 0
             /\ \A k \in 1..SampleSize : StoreBuf(i)[k] = SampleBytes(g_sample_set_buf[i])[k]
             /\ (DeviceAddress(flash_addr_buf) % PAGE_SIZE) + Len(StoreBuf(i)) <= PAGE_SIZE
             /\ \A k \in 0..(BUF_SIZE - 1) :
                   PageAddr(DeviceAddress(flash_addr_buf), k) =
                      DeviceAddress(flash_addr_buf) + k)
    /\ [](\A j, k \in 1..Len(prog_log) :
             j # k => SlotCells(prog_log[j]) \cap SlotCells(prog_log[k]) = {})
    /\ [](\A j \in 1..Len(prog_log) :
             /\ prog_log[j] % BUF_SIZE = 0
             /\ \A k \in SampleSize..(BUF_SIZE - 1) : flash[prog_log[j] + k] = 0)
    /\ [][flash' # flash =>
             /\ pc = "store_program"
             /\ \A a \in DOMAIN flash :
                   flash'[a] # flash[a] => a \in SlotCells(DeviceAddress(flash_addr_buf))]_vars

\* three records have been programmed, the second in the last slot of the first
\* page and the third in the first slot of the next page
C32_ProgramsOnBothSidesOfPageEnd ==
    /\ pc = "done"
    /\ prog_log = <<PAGE_SIZE - 2 * BUF_SIZE, PAGE_SIZE - BUF_SIZE, PAGE_SIZE>>
    /\ flash[PAGE_SIZE - 1] = 0
    /\ flash[PAGE_SIZE - BUF_SIZE + SampleSize - 1] # ERASED
    /\ flash[PAGE_SIZE + SampleSize] = 0

\* the raw value icm20649_read_gyro_accel_data assembles for an axis: any int16_t
RawReadings == Int16Range

\* icm20649_convert_data alone: one call, on any raw reading
InitConvert ==
    /\ pc = "convert_read"
    /\ test_val = <<>>
    /\ m_xfer_done = TRUE
    /\ prox_val = 0
    /\ high_g_data = <<0, 0, 0>>
    /\ low_g_gyro_data = <<0, 0, 0, 0, 0, 0>>
    /\ rtc_data = <<0, 0, 0, 0, 0, 0, 0, 0>>
    /\ get_time_ret = -1
    /\ g_measurement_done = FALSE
    /\ timer = "idle"
    /\ now = 0
    /\ duration = 1
    /\ acq_time = 1
    /\ use_prox = TRUE
    /\ iterations = 0
    /\ g_buf_index = 0
    /\ g_sample_set_buf = [k \in BufIndices |-> ZeroSample]
    /\ g_flash_output_buf = [k \in BufIndices |-> ZeroSample]
    /\ start_addr = LOW_SEGMENT_ADDRESS_START
    /\ flash_addr = 0
    /\ i = 0
    /\ flash_addr_buf = <<0, 0, 0>>
    /\ out_buf = [k \in 1..BUF_SIZE |-> 0]
    /\ addr32 = 0
    /\ flash = CleanFlash
    /\ flash_busy = FALSE
    /\ wel = FALSE
    /\ last_cmd = "NONE"
    /\ awaiting_ready = FALSE
    /\ prog_log = <<>>
    /\ read_log = <<>>
    /\ faults_left = 0
    /\ faulted = {}
    /\ out_log = <<>>

no_convert_change ==
    UNCHANGED <<test_val, m_xfer_done, prox_val, high_g_data, rtc_data, get_time_ret,
                g_measurement_done, timer, now, iterations, g_buf_index,
                g_sample_set_buf, duration, acq_time, use_prox, start_addr, store_vars,
                flash_vars, faults_left>>

\* icm20649_read_gyro_accel_data: the six axes, here all with the same raw value
convert_read ==
    /\ pc = "convert_read"
    /\ \E raw \in RawReadings : low_g_gyro_data' = <<raw, raw, raw, raw, raw, raw>>
    /\ pc' = "convert_process"
    /\ no_convert_change

\* icm20649_convert_data(&low_g_gyro_data)
convert_process ==
    /\ pc = "convert_process"
    /\ low_g_gyro_data' \in icm20649_convert_stores(low_g_gyro_data)
    /\ pc' = "convert_done"
    /\ no_convert_change

NextConvert ==
    \/ convert_read
    \/ convert_process

SpecConvert == InitConvert /\ [][NextConvert]_vars

\* C33 as claimed: for every raw reading the value icm20649_convert_data
\* produces for each of the three acceleration axes and the three gyro axes is a
\* value of int16_t, and it is the value the field holds after the call.
C33_ConvertedValueFitsField ==
    /\ [](pc = "convert_process" =>
             \A k \in 1..6 : icm20649_convert_data(low_g_gyro_data)[k] \in Int16Range)
    /\ [][(pc = "convert_process") =>
             low_g_gyro_data' = icm20649_convert_data(low_g_gyro_data)]_vars

\* the values a two-digit time field takes
DecimalValues == 0..99

\* the bytes whose two nibbles are decimal digits
BcdBytes == {16 * hi + lo : hi \in 0..9, lo \in 0..9}

\* the packed-BCD byte of a two-digit value: tens in the high nibble
PackedBcd(v) == 16 * (v \div 10) + (v % 10)

\* dec2hex, the registers and get_time alone: the clock was set `now' hundredths
\* ago with the time ds_config writes, and is read once
InitBcd ==
    /\ pc = "bcd_read"
    /\ test_val = <<>>
    /\ m_xfer_done = TRUE
    /\ prox_val = 0
    /\ high_g_data = <<0, 0, 0>>
    /\ low_g_gyro_data = <<0, 0, 0, 0, 0, 0>>
    /\ rtc_data = <<0, 0, 0, 0, 0, 0, 0, 0>>
    /\ get_time_ret = -1
    /\ g_measurement_done = FALSE
    /\ timer = "idle"
    /\ now \in DecimalValues
    /\ duration = 1
    /\ acq_time = 1
    /\ use_prox = TRUE
    /\ iterations = 0
    /\ g_buf_index = 0
    /\ g_sample_set_buf = [k \in BufIndices |-> ZeroSample]
    /\ g_flash_output_buf = [k \in BufIndices |-> ZeroSample]
    /\ start_addr = LOW_SEGMENT_ADDRESS_START
    /\ flash_addr = 0
    /\ i = 0
    /\ flash_addr_buf = <<0, 0, 0>>
    /\ out_buf = [k \in 1..BUF_SIZE |-> 0]
    /\ addr32 = 0
    /\ flash = CleanFlash
    /\ flash_busy = FALSE
    /\ wel = FALSE
    /\ last_cmd = "NONE"
    /\ awaiting_ready = FALSE
    /\ prog_log = <<>>
    /\ read_log = <<>>
    /\ faults_left = 0
    /\ faulted = {}
    /\ out_log = <<>>

no_bcd_change ==
    UNCHANGED <<test_val, m_xfer_done, prox_val, high_g_data, low_g_gyro_data, get_time_ret,
                g_measurement_done, timer, now, iterations, g_buf_index,
                g_sample_set_buf, duration, acq_time, use_prox, start_addr, store_vars,
                flash_vars, faults_left>>

\* the eight readRegister calls of get_time: the registers hold what dec2hex made
\* of the time set, the seconds register any packed-BCD byte
bcd_read ==
    /\ pc = "bcd_read"
    /\ \E b \in BcdBytes :
          LET regs == RtcRegs(now)
          IN  rtc_data' = <<regs.year, regs.month, regs.date, regs.day, regs.hour,
                            regs.minute, b, regs.hundred>>
    /\ pc' = "bcd_process"
    /\ no_bcd_change

\* the time processing of get_time
bcd_process ==
    /\ pc = "bcd_process"
    /\ rtc_data' = get_time(RegsOf(rtc_data))
    /\ pc' = "bcd_done"
    /\ no_bcd_change

NextBcd ==
    \/ bcd_read
    \/ bcd_process

SpecBcd == InitBcd /\ [][NextBcd]_vars

\* C34: the hundredths register, which dec2hex made of a value v in 0..99, is
\* the packed-BCD byte of v, and get_time's hex2dec gives v back; the seconds
\* register, any byte with two decimal nibbles, is turned by hex2dec into ten
\* times the high nibble plus the low one, of which dec2hex gives the byte back;
\* and after get_time the fields are the decimal values that were set, none of
\* them a packed-BCD byte with a tens digit.
C34_BcdRoundTripsAndFieldsAreDecimal ==
    /\ [](dec2hex(now) = PackedBcd(now) /\ dec2hex(now) \in BcdBytes)
    /\ [](hex2dec(dec2hex(now)) = now)
    /\ [](pc = "bcd_process" =>
             /\ rtc_data[8] = PackedBcd(now)
             /\ rtc_data[7] \in BcdBytes
             /\ dec2hex(hex2dec(rtc_data[7])) = rtc_data[7]
             /\ hex2dec(rtc_data[7]) = 10 * (rtc_data[7] \div 16) + (rtc_data[7] % 16))
    /\ [][(pc = "bcd_process") =>
             /\ rtc_data'[8] = now
             /\ rtc_data'[7] \in DecimalValues
             /\ dec2hex(rtc_data'[7]) = rtc_data[7]
             /\ PackedBcd(rtc_data'[7]) = rtc_data[7]]_vars
    /\ [](pc = "bcd_done" =>
             /\ \A k \in {1, 2, 3, 4, 6} : rtc_data[k] = InitTime[k]
             /\ rtc_data[5] = InitTime[5]
             /\ rtc_data[8] = now
             /\ rtc_data[7] \in 0..99)

\* get_time has read 0x99 in the hundredths register and 0x59 in the seconds
\* register and stored 99 and 59
C34_NinetyNineHundredths ==
    /\ pc = "bcd_done"
    /\ now = 99
    /\ dec2hex(now) = 153
    /\ rtc_data[8] = 99
    /\ rtc_data[7] = 59

====
